---- MODULE Spec2Model ----
(***************************************************************************)
(* Checkpoint / rollup decision engine of remem-memory's Claude hook       *)
(* (plugins/remem-memory/scripts/auto_memory_hook.py).                     *)
(*                                                                         *)
(* Three specifications share the definitions below:                      *)
(*   Spec        hook invocations of one session run one after another;    *)
(*               every handler is one atomic action (it runs under the     *)
(*               state lock) and the wall clock advances between them.     *)
(*   SpecPolicy  the pure trigger policy _should_interval_checkpoint       *)
(*               applied to session states, thresholds and clock readings  *)
(*               drawn from bounded sets.                                  *)
(*   SpecConc    several hook invocations run as concurrent processes and  *)
(*               contend for the state lock; a handler is split at its     *)
(*               accesses to the shared files.                             *)
(*                                                                         *)
(* Abstractions: time is counted in whole seconds; an activity event keeps *)
(* its tool and file list (its own timestamp                               *)
(* and the one-line summary made of it are left out, and with them the     *)
(* document's Recent Activity list); a checkpoint document keeps its       *)
(* metadata (the markdown body is rendered from the same values); the      *)
(* summarization provider is absent, so every summary is the templated     *)
(* sentence.                                                               *)
(***************************************************************************)
EXTENDS Integers, Sequences, FiniteSets, TLC

VARIABLES
    cfg,        \* Config of the invocations (fixed per behaviour)
    now,        \* wall clock, seconds
    steps,      \* Spec: clock ticks and hook invocations so far
    stateFile,  \* content of the session state file
    log,        \* content of the NDJSON audit log, one record per line
    last,       \* history: mode of the most recent invocation that took the lock
    hist,       \* history: events received while only post_tool_use has run
    decision,   \* SpecPolicy: result of the last policy evaluation
    fcntl,      \* SpecConc: whether the fcntl module could be imported
    holders,    \* SpecConc: processes holding the exclusive flock
    pc,         \* SpecConc: position of each hook process
    inv,        \* SpecConc: mode and payload of each hook process
    loc,        \* SpecConc: in-memory state dict of each hook process
    env,        \* environment of the hook process: variables, PATH, provider reply
    tmpFile,    \* content of the state file's sibling .tmp file
    remote      \* history: what the POST of the latest invocation met

vars == <<cfg, now, steps, stateFile, log, last, hist, decision, fcntl, holders, pc, inv, loc,
          env, tmpFile, remote>>

-----------------------------------------------------------------------------
(* Bounds of the model *)

MaxMinEvents == 2
MaxSteps == 6
TickStep == 15
NumProcs == 2
MaxPolicyTime == 6
MaxPolicyInterval == 3

(* Program constants *)

RecentCap == 30
SuppressWindow == 30
FilesInSummary == 5

-----------------------------------------------------------------------------
(* Small helpers *)

Range(s) == {s[i] : i \in 1..Len(s)}

Take(s, n) == SubSeq(s, 1, IF Len(s) < n THEN Len(s) ELSE n)

\* A list that is never cut.
KeepAll(s, n) == s

\* A cut that keeps the oldest items.
FirstN(s, n) == SubSeq(s, 1, IF Len(s) < n THEN Len(s) ELSE n)

LastN(s, n) == IF Len(s) <= n THEN s ELSE SubSeq(s, Len(s) - n + 1, Len(s))

RECURSIVE Flatten(_)
Flatten(ss) == IF ss = <<>> THEN <<>> ELSE Head(ss) \o Flatten(Tail(ss))

-----------------------------------------------------------------------------
(* Inputs *)

Paths == {"a.py", "b.py"}

ActiveSession == "sess-a"
StaleSession == "sess-old"
Project == "remem"

\* Hook payloads read from stdin: tool_name, tool_input.file_path, transcript_path.
ToolPayloads ==
    {[tool_name |-> "Write", file_path |-> f, transcript_path |-> "t.jsonl"] : f \in Paths}
    \cup {[tool_name |-> "Bash", file_path |-> "", transcript_path |-> "t.jsonl"],
          [tool_name |-> "", file_path |-> "", transcript_path |-> ""]}

SignalPayloads == {[tool_name |-> "", file_path |-> "", transcript_path |-> "t.jsonl"]}

Milestones == {"task_completed", "pre_compact", "session_end"}

Modes == {"post_tool_use"} \cup Milestones

\* Outcome of the POST to the ingestion endpoint when a credential is configured.
\* What a POST to the ingest endpoint meets: a 2xx answer with a JSON body,
\* with an empty body or with a body that is not JSON, a non-2xx answer, a
\* transport error, or no answer within the timeout.
RemoteOutcomes == {"ok_json", "ok_empty", "ok_not_json", "http_error", "url_error", "timeout"}

\* The JSON body of a 2xx answer, and the value _ingest returns for an empty one.
RemoteBody == "{\"id\": \"doc-1\"}"

SyntheticOk == "{\"ok\": true}"

\* Without an api key _ingest makes no request at all.
NetOutcomes(config) == IF config.api_key THEN RemoteOutcomes ELSE {"none"}

Configs ==
    [project : {Project}, session_id : {ActiveSession},
     min_events : 1..MaxMinEvents,
     interval_seconds : {2 * TickStep},
     api_key : BOOLEAN,
     rollup_on_session_end : BOOLEAN]

\* Environment of a hook process.  forced: REMEM_MEMORY_SUMMARY_PROVIDER;
\* available: the backends whose executable or credential is present; reply:
\* the raw text the summarization backend returns.
NoBackendEnv == [forced |-> "", available |-> {}, enabled |-> TRUE, excerpt |-> FALSE, reply |-> <<>>]

-----------------------------------------------------------------------------
(* Checkpoint State Store *)

DefaultState(session_id) ==
    [session_id |-> session_id,
     project |-> "",
     last_checkpoint_epoch |-> 0,
     events_since_checkpoint |-> 0,
     recent_events |-> <<>>,
     checkpoints_created |-> 0,
     last_rollup_epoch |-> 0,
     transcript_path |-> ""]

\* File content.  kind: "missing" (no file), "unreadable" (reading fails with
\* an OSError), "undecodable" (bytes that are not UTF-8), "garbage" (text that
\* is not JSON), "nonobject" (JSON that is not an object) or "object" (a JSON
\* object).  For an object, data holds the values of its keys, absent names
\* the keys it lacks and odd the keys whose value has an unexpected type: a
\* session_id that is no string, a recent_events that is no list, a counter
\* or epoch that int() and float() reject (a word, a non-empty list).  A null
\* or empty counter reads as 0 through `x or 0` and is held as 0.
NoFile == [kind |-> "missing", data |-> DefaultState(""), absent |-> {}, odd |-> {}]

GarbageFile == [kind |-> "garbage", data |-> DefaultState(""), absent |-> {}, odd |-> {}]

UnreadableFile == [kind |-> "unreadable", data |-> DefaultState(""), absent |-> {}, odd |-> {}]

UndecodableFile == [kind |-> "undecodable", data |-> DefaultState(""), absent |-> {}, odd |-> {}]

NonObjectFile == [kind |-> "nonobject", data |-> DefaultState(""), absent |-> {}, odd |-> {}]

ConvertedKeys == {"events_since_checkpoint", "last_checkpoint_epoch", "checkpoints_created"}

\* read_text raises UnicodeDecodeError, which the except clause of
\* _load_state (OSError, JSONDecodeError) does not catch.
LoadRaises(file) == file.kind = "undecodable"

\* _default_state(session_id) updated with the parsed object.
Merged(file, session_id) ==
    [k \in DOMAIN file.data |->
        IF k \in file.absent THEN DefaultState(session_id)[k]
        ELSE IF k = "recent_events" /\ k \in file.odd THEN <<>>
        ELSE file.data[k]]

SessionMatches(file, session_id) ==
    /\ file.kind = "object"
    /\ "session_id" \in file.absent
        \/ ("session_id" \notin file.odd /\ file.data.session_id = session_id)

\* A load that dropped the session check.
LoadStateAnySession(file, session_id) ==
    IF file.kind # "object" THEN DefaultState(session_id)
    ELSE [Merged(file, session_id) EXCEPT !.session_id = session_id]

LoadState(file, session_id) ==
    IF file.kind = "missing" THEN DefaultState(session_id)
    ELSE IF file.kind # "object" THEN DefaultState(session_id)
    ELSE IF ~SessionMatches(file, session_id) THEN DefaultState(session_id)
    ELSE Merged(file, session_id)

\* The counters of the loaded dict that still hold an unconvertible value.
LoadedOdd(file, session_id) ==
    IF SessionMatches(file, session_id) THEN (file.odd \ file.absent) \cap ConvertedKeys ELSE {}

SaveState(state) == [kind |-> "object", data |-> state, absent |-> {}, odd |-> {}]

AppendNdjson(lg, record) == Append(lg, record)

-----------------------------------------------------------------------------
(* Activity events *)

\* <<>> when the payload names no tool (the handler returns at once),
\* otherwise <<event>>.
ExtractToolEvent(payload) ==
    IF payload.tool_name = "" THEN <<>>
    ELSE IF payload.tool_name \in {"Write", "Edit", "MultiEdit"} /\ payload.file_path # ""
    THEN <<[tool |-> payload.tool_name, files |-> <<payload.file_path>>]>>
    ELSE <<[tool |-> payload.tool_name, files |-> <<>>]>>

RECURSIVE DedupeFrom(_, _)
DedupeFrom(items, out) ==
    IF items = <<>> THEN out
    ELSE IF Head(items) = "" \/ Head(items) \in Range(out)
    THEN DedupeFrom(Tail(items), out)
    ELSE DedupeFrom(Tail(items), Append(out, Head(items)))

Dedupe(items) == DedupeFrom(items, <<>>)

-----------------------------------------------------------------------------
(* Trigger Policy *)

\* Faulty variants of the policy, used to test the properties below.
ShouldIntervalNoFloorFirst(state, config, t) ==
    IF state.last_checkpoint_epoch <= 0 THEN TRUE
    ELSE IF state.events_since_checkpoint < config.min_events THEN FALSE
    ELSE (t - state.last_checkpoint_epoch) >= config.interval_seconds
         \/ state.events_since_checkpoint >= config.min_events * 2

ShouldIntervalNoFirstEver(state, config, t) ==
    IF state.events_since_checkpoint < config.min_events THEN FALSE
    ELSE (t - state.last_checkpoint_epoch) >= config.interval_seconds
         \/ state.events_since_checkpoint >= config.min_events * 2

ShouldIntervalNoBurst(state, config, t) ==
    IF state.events_since_checkpoint < config.min_events THEN FALSE
    ELSE IF state.last_checkpoint_epoch <= 0 THEN TRUE
    ELSE (t - state.last_checkpoint_epoch) >= config.interval_seconds

ShouldIntervalStrictlyAfter(state, config, t) ==
    IF state.events_since_checkpoint < config.min_events THEN FALSE
    ELSE IF state.last_checkpoint_epoch <= 0 THEN TRUE
    ELSE (t - state.last_checkpoint_epoch) > config.interval_seconds
         \/ state.events_since_checkpoint >= config.min_events * 2

ShouldIntervalCheckpoint(state, config, t) ==
    LET events_since == state.events_since_checkpoint
        last_epoch == state.last_checkpoint_epoch
    IN  IF events_since < config.min_events THEN FALSE
        ELSE IF last_epoch <= 0 THEN TRUE
        ELSE (t - last_epoch) >= config.interval_seconds
             \/ events_since >= config.min_events * 2

PreCompactSuppressedFlipped(state, t) ==
    /\ state.last_checkpoint_epoch > 0
    /\ state.events_since_checkpoint <= 0
    /\ (t - state.last_checkpoint_epoch) > SuppressWindow

PreCompactSuppressedAnyEvents(state, t) ==
    /\ state.last_checkpoint_epoch > 0
    /\ (t - state.last_checkpoint_epoch) < SuppressWindow

PreCompactSuppressed(state, t) ==
    /\ state.last_checkpoint_epoch > 0
    /\ state.events_since_checkpoint <= 0
    /\ (t - state.last_checkpoint_epoch) < SuppressWindow

-----------------------------------------------------------------------------
(* Provider Selector *)

NoProvider == "none"

\* The candidates in the order _select_llm_provider tries them.
Candidates == <<"claude_cli", "codex_cli", "anthropic", "openai">>

\* value.strip().lower() on the spellings the model uses.
StripLower(value) ==
    CASE value = " OpenAI " -> "openai"
      [] value = "Claude" -> "claude"
      [] value = "  " -> ""
      [] OTHER -> value

NormalizeProvider(value) ==
    LET raw == StripLower(value)
        mapped == CASE raw \in {"claude", "claude-cli", "claude_cli"} -> "claude_cli"
                    [] raw \in {"codex", "codex-cli", "codex_cli"} -> "codex_cli"
                    [] OTHER -> raw
    IN  IF raw = "" THEN NoProvider
        ELSE IF mapped \in {"claude_cli", "codex_cli", "anthropic", "openai"} THEN mapped
        ELSE NoProvider

\* environ.available holds the backends whose executable is on the search path
\* or whose credential is set.
ProviderAvailable(environ, provider) ==
    /\ provider \in {"claude_cli", "codex_cli", "anthropic", "openai"}
    /\ provider \in environ.available

RECURSIVE FirstAvailableFrom(_, _)
FirstAvailableFrom(environ, i) ==
    IF i > Len(Candidates) THEN NoProvider
    ELSE IF ProviderAvailable(environ, Candidates[i]) THEN Candidates[i]
    ELSE FirstAvailableFrom(environ, i + 1)

\* A selector that tries the candidates from the last one.
RECURSIVE LastAvailableFrom(_, _)
LastAvailableFrom(environ, i) ==
    IF i < 1 THEN NoProvider
    ELSE IF ProviderAvailable(environ, Candidates[i]) THEN Candidates[i]
    ELSE LastAvailableFrom(environ, i - 1)

SelectLastAvailable(environ) ==
    LET forced == NormalizeProvider(environ.forced)
    IN  IF forced # NoProvider
        THEN (IF ProviderAvailable(environ, forced) THEN forced ELSE NoProvider)
        ELSE LastAvailableFrom(environ, Len(Candidates))

\* A selector that auto-detects when the forced provider is unavailable.
SelectWithFallback(environ) ==
    LET forced == NormalizeProvider(environ.forced)
    IN  IF forced # NoProvider /\ ProviderAvailable(environ, forced) THEN forced
        ELSE FirstAvailableFrom(environ, 1)

SelectLlmProvider(environ) ==
    LET forced == NormalizeProvider(environ.forced)
    IN  IF forced # NoProvider
        THEN (IF ProviderAvailable(environ, forced) THEN forced ELSE NoProvider)
        ELSE FirstAvailableFrom(environ, 1)

LlmEnabled(environ) == environ.enabled /\ SelectLlmProvider(environ) # NoProvider

-----------------------------------------------------------------------------
(* Structured Summary Generator *)

\* Text is a sequence of tokens.  A token of a provider reply is a record:
\* punctuation of JSON, a backtick ("tick"), whitespace ("ws"), a bare word, a number, or a
\* string literal with its content v (a sequence of words and " ").
Tok(t) == [t |-> t, v |-> <<>>]

Str(v) == [t |-> "str", v |-> v]

Ws == Tok("ws")

RECURSIVE DropWhile(_, _)
DropWhile(s, skip) ==
    IF s # <<>> /\ Head(s) \in skip THEN DropWhile(Tail(s), skip) ELSE s

RECURSIVE DropWhileEnd(_, _)
DropWhileEnd(s, skip) ==
    IF s # <<>> /\ s[Len(s)] \in skip THEN DropWhileEnd(SubSeq(s, 1, Len(s) - 1), skip) ELSE s

\* str.strip(): with no argument whitespace, otherwise the given characters.
Strip(s, skip) == DropWhileEnd(DropWhile(s, skip), skip)

\* Values json.loads returns.
JStr(v) == [type |-> "str", val |-> v]

JNum == [type |-> "int", val |-> <<>>]

JList(items) == [type |-> "list", val |-> items]

JDict(members) == [type |-> "dict", val |-> members]

EmptyMembers == [k \in {} |-> JNum]

ParseFail == [ok |-> FALSE, val |-> JNum, next |-> 0]

Parsed(val, next) == [ok |-> TRUE, val |-> val, next |-> next]

IsTok(T, i, t) == i <= Len(T) /\ T[i].t = t

KeyOf(tok) == IF Len(tok.v) = 1 THEN tok.v[1] ELSE "?"

\* The grammar covers scalars, lists of scalars, and objects whose members
\* are scalars or lists of scalars: the shapes the prompt asks for.
ParseScalar(T, i) ==
    IF i > Len(T) THEN ParseFail
    ELSE CASE T[i].t = "str" -> Parsed(JStr(T[i].v), i + 1)
           [] T[i].t = "num" -> Parsed(JNum, i + 1)
           [] OTHER -> ParseFail

RECURSIVE ParseElements(_, _, _)
ParseElements(T, i, acc) ==
    LET r == ParseScalar(T, i)
    IN  IF ~r.ok THEN ParseFail
        ELSE IF IsTok(T, r.next, ",") THEN ParseElements(T, r.next + 1, Append(acc, r.val))
        ELSE IF IsTok(T, r.next, "]") THEN Parsed(JList(Append(acc, r.val)), r.next + 1)
        ELSE ParseFail

ParseList(T, i) ==
    IF IsTok(T, i + 1, "]") THEN Parsed(JList(<<>>), i + 2) ELSE ParseElements(T, i + 1, <<>>)

ParseMember(T, i) == IF IsTok(T, i, "[") THEN ParseList(T, i) ELSE ParseScalar(T, i)

RECURSIVE ParseMembers(_, _, _)
ParseMembers(T, i, acc) ==
    IF ~(IsTok(T, i, "str") /\ IsTok(T, i + 1, ":")) THEN ParseFail
    ELSE LET r == ParseMember(T, i + 2)
             key == KeyOf(T[i])
             more == [k \in DOMAIN acc \cup {key} |-> IF k = key THEN r.val ELSE acc[k]]
         IN  IF ~r.ok THEN ParseFail
             ELSE IF IsTok(T, r.next, ",") THEN ParseMembers(T, r.next + 1, more)
             ELSE IF IsTok(T, r.next, "}") THEN Parsed(JDict(more), r.next + 1)
             ELSE ParseFail

ParseValue(T, i) ==
    IF IsTok(T, i, "[") THEN ParseList(T, i)
    ELSE IF IsTok(T, i, "{")
    THEN (IF IsTok(T, i + 1, "}") THEN Parsed(JDict(EmptyMembers), i + 2)
          ELSE ParseMembers(T, i + 1, EmptyMembers))
    ELSE ParseScalar(T, i)

\* json.loads: one value, whitespace allowed around every token, nothing after it.
JsonLoads(text) ==
    LET T == SelectSeq(text, LAMBDA tok : tok.t # "ws")
        r == ParseValue(T, 1)
    IN  IF r.ok /\ r.next = Len(T) + 1 THEN r ELSE ParseFail

RECURSIVE Find(_, _, _)
Find(text, t, i) ==
    IF i > Len(text) THEN 0 ELSE IF text[i].t = t THEN i ELSE Find(text, t, i + 1)

RECURSIVE RFind(_, _, _)
RFind(text, t, i) ==
    IF i < 1 THEN 0 ELSE IF text[i].t = t THEN i ELSE RFind(text, t, i - 1)

NoObject == [found |-> FALSE, members |-> EmptyMembers]

AsObject(r) ==
    IF r.ok /\ r.val.type = "dict" THEN [found |-> TRUE, members |-> r.val.val] ELSE NoObject

\* The text handed to json.loads: stripped, and without its fence of
\* backticks when it starts with three of them.
Unfenced(stripped) ==
    IF Len(stripped) >= 3 /\ \A i \in 1..3 : stripped[i].t = "tick"
    THEN Strip(Strip(stripped, {Tok("tick")}), {Ws}) ELSE stripped

Cleaned(raw) == Unfenced(Strip(raw, {Ws}))

\* An extraction that gives up when the whole reply does not parse.
ExtractWholeReplyOnly(raw) ==
    IF Strip(raw, {Ws}) = <<>> THEN NoObject ELSE AsObject(JsonLoads(Cleaned(raw)))

\* The second attempt of _extract_json_object: the span from the first "{"
\* to the last "}".
ExtractSpan(cleaned, start, end) ==
    IF start = 0 \/ end = 0 \/ end <= start THEN NoObject
    ELSE AsObject(JsonLoads(SubSeq(cleaned, start, end)))

ExtractFrom(cleaned, whole) ==
    IF whole.ok THEN AsObject(whole)
    ELSE ExtractSpan(cleaned, Find(cleaned, "{", 1), RFind(cleaned, "}", Len(cleaned)))

ExtractCleaned(cleaned) == ExtractFrom(cleaned, JsonLoads(cleaned))

ExtractJsonObject(raw) ==
    IF Strip(raw, {Ws}) = <<>> THEN NoObject ELSE ExtractCleaned(Cleaned(raw))

SummaryItemsLimit == 10

\* " ".join(item.strip().split())
RECURSIVE JoinWords(_)
JoinWords(words) ==
    IF Len(words) <= 1 THEN words
    ELSE <<Head(words), " ">> \o JoinWords(Tail(words))

Collapse(item) == JoinWords(SelectSeq(item, LAMBDA w : w # " "))

RECURSIVE SanitizeFrom(_, _, _)
SanitizeFrom(items, out, limit) ==
    IF items = <<>> \/ Len(out) >= limit THEN out
    ELSE LET item == Head(items)
         IN  IF item.type # "str" \/ Collapse(item.val) = <<>>
             THEN SanitizeFrom(Tail(items), out, limit)
             ELSE SanitizeFrom(Tail(items), Append(out, Collapse(item.val)), limit)

\* A _dedupe that keeps the repeats.
StripOnly(items) ==
    SelectSeq([i \in 1..Len(items) |-> Strip(items[i], {" "})], LAMBDA v : v # <<>>)

\* _dedupe on texts: strip every item, drop the empty ones and the repeats.
RECURSIVE DedupeTextFrom(_, _)
DedupeTextFrom(items, out) ==
    IF items = <<>> THEN out
    ELSE IF Strip(Head(items), {" "}) = <<>> \/ Strip(Head(items), {" "}) \in Range(out)
    THEN DedupeTextFrom(Tail(items), out)
    ELSE DedupeTextFrom(Tail(items), Append(out, Strip(Head(items), {" "})))

DedupeText(items) == DedupeTextFrom(items, <<>>)

SanitizeItems(members, key, limit) ==
    IF key \notin DOMAIN members THEN <<>>
    ELSE IF members[key].type # "list" THEN <<>>
    ELSE DedupeText(SanitizeFrom(members[key].val, <<>>, limit))

NoSummary ==
    [made |-> FALSE, summary |-> <<>>, decisions |-> <<>>, open_questions |-> <<>>,
     next_actions |-> <<>>, provider |-> NoProvider]

\* _prompt_llm: the reply of the selected backend, nothing without one.
PromptLlm(environ) ==
    IF SelectLlmProvider(environ) = NoProvider THEN <<>> ELSE environ.reply

HasSummaryText(members) ==
    /\ "summary" \in DOMAIN members
    /\ members["summary"].type = "str"
    /\ Strip(members["summary"].val, {" "}) # <<>>

StructuredSummary(summary, members, provider, limit) ==
    [made |-> TRUE,
     summary |-> Strip(summary, {" "}),
     decisions |-> SanitizeItems(members, "decisions", limit),
     open_questions |-> SanitizeItems(members, "open_questions", limit),
     next_actions |-> SanitizeItems(members, "next_actions", limit),
     provider |-> provider]

\* A generator that accepts every reply that holds an object.
SummaryWithoutCheck(environ, transcript_path, raw, parsed) ==
    IF ~LlmEnabled(environ) \/ transcript_path = "" THEN NoSummary
    ELSE IF ~environ.excerpt THEN NoSummary
    ELSE IF raw = <<>> THEN NoSummary
    ELSE IF ~parsed.found THEN NoSummary
    ELSE StructuredSummary(<<>>, parsed.members, SelectLlmProvider(environ), SummaryItemsLimit)

GenerateWithoutSummaryCheck(environ, transcript_path) ==
    SummaryWithoutCheck(environ, transcript_path, PromptLlm(environ),
                        ExtractJsonObject(PromptLlm(environ)))

\* _generate_checkpoint_structured_summary from the reply on.
SummaryFromReply(environ, transcript_path, raw, parsed) ==
    IF ~LlmEnabled(environ) \/ transcript_path = "" THEN NoSummary
    ELSE IF ~environ.excerpt THEN NoSummary
    ELSE IF raw = <<>> THEN NoSummary
    ELSE IF ~parsed.found \/ DOMAIN parsed.members = {} THEN NoSummary
    ELSE IF ~HasSummaryText(parsed.members) THEN NoSummary
    ELSE StructuredSummary(parsed.members["summary"].val, parsed.members,
                           SelectLlmProvider(environ), SummaryItemsLimit)

GenerateCheckpointStructuredSummary(environ, transcript_path) ==
    SummaryFromReply(environ, transcript_path, PromptLlm(environ),
                     ExtractJsonObject(PromptLlm(environ)))

RollupItemsLimit == 18

\* _generate_rollup_structured_summary from the reply on.  nothing_to_say:
\* the records gave no summary, decision, open question or next action.
RollupSummaryFromReply(environ, nothing_to_say, raw, parsed) ==
    IF ~LlmEnabled(environ) THEN NoSummary
    ELSE IF nothing_to_say THEN NoSummary
    ELSE IF raw = <<>> THEN NoSummary
    ELSE IF ~parsed.found \/ DOMAIN parsed.members = {} THEN NoSummary
    ELSE IF ~HasSummaryText(parsed.members) THEN NoSummary
    ELSE StructuredSummary(parsed.members["summary"].val, parsed.members,
                           SelectLlmProvider(environ), RollupItemsLimit)

GenerateRollupStructuredSummary(environ, nothing_to_say) ==
    RollupSummaryFromReply(environ, nothing_to_say, PromptLlm(environ),
                           ExtractJsonObject(PromptLlm(environ)))

-----------------------------------------------------------------------------
(* Checkpoint / Rollup Builder and Ingestion Gateway *)

FilesTouchedNoDedupe(recent_events) ==
    Flatten([i \in 1..Len(recent_events) |-> recent_events[i].files])

FilesTouched(recent_events) ==
    Dedupe(Flatten([i \in 1..Len(recent_events) |-> recent_events[i].files]))

\* A document that files the open questions under decisions and the reverse.
CheckpointPayloadListsSwapped(config, kind, hook_event, files_touched, events_since, structured, t) ==
    [project |-> config.project,
     session_id |-> config.session_id,
     checkpoint_kind |-> kind,
     timestamp |-> t,
     hook_event |-> hook_event,
     files_touched |-> files_touched,
     summary |-> [template |-> "structured", text |-> structured.summary],
     decisions |-> structured.open_questions,
     open_questions |-> structured.decisions,
     next_actions |-> structured.next_actions,
     llm_summary_provider |-> structured.provider,
     summarized |-> 0]

\* The document, given the touched files and what the generator returned.
CheckpointPayload(config, kind, hook_event, files_touched, events_since, structured, t) ==
    [project |-> config.project,
     session_id |-> config.session_id,
     checkpoint_kind |-> kind,
     timestamp |-> t,
     hook_event |-> hook_event,
     files_touched |-> files_touched,
     summary |-> IF structured.made
                 THEN [template |-> "structured", text |-> structured.summary]
                 ELSE [template |-> IF events_since > 0 THEN "after_events" ELSE "triggered_by",
                       events |-> events_since,
                       files |-> Take(files_touched, FilesInSummary)],
     decisions |-> structured.decisions,
     open_questions |-> structured.open_questions,
     next_actions |-> structured.next_actions,
     llm_summary_provider |-> structured.provider,
     summarized |-> 0]

BuildCheckpointPayload(config, kind, hook_event, recent_events, events_since, transcript_path, t) ==
    CheckpointPayload(config, kind, hook_event, FilesTouched(recent_events), events_since,
                      GenerateCheckpointStructuredSummary(env, transcript_path), t)

\* An ingest that drops every answer.
IngestAlwaysNull(config, net) == "null"

\* "null" (None) when no credential is configured, when urlopen raises, and
\* when json.loads rejects the body (caught by `except Exception`).
Ingest(config, net) ==
    IF ~config.api_key THEN "null"
    ELSE CASE net = "ok_json" -> RemoteBody
           [] net = "ok_empty" -> SyntheticOk
           [] OTHER -> "null"

PersistCheckpoint(config, kind, hook_event, state, lg, t, net) ==
    AppendNdjson(lg,
        [event |-> "auto_checkpoint",
         payload |-> BuildCheckpointPayload(config, kind, hook_event, state.recent_events,
                                            state.events_since_checkpoint,
                                            state.transcript_path, t),
         response |-> Ingest(config, net)])

LoadCheckpointRows(lg, project, session_id) ==
    SelectSeq(lg, LAMBDA row : row.payload.project = project /\ row.payload.session_id = session_id)

\* The values of one metadata list over the records, stripped, without the
\* empty ones (lines 1014-1025).
Collected(records, Field(_)) ==
    Flatten([i \in 1..Len(records) |->
                SelectSeq([j \in 1..Len(Field(records[i])) |-> Strip(Field(records[i])[j], {" "})],
                          LAMBDA v : v # <<>>)])

RowDecisions(row) == row.payload.decisions

RowOpenQuestions(row) == row.payload.open_questions

RowNextActions(row) == row.payload.next_actions

\* `structured.decisions or decisions`
Preferred(structured_items, items) == IF structured_items # <<>> THEN structured_items ELSE items

\* The rollup document, given the lists collected from the records and what
\* the generator returned.  files_touched is the metadata key a later rollup
\* reads, which a rollup document does not have; content_files is its
\* "Files Touched" section.
RollupPayload(config, count, files, decisions, open_questions, next_actions, structured, t) ==
    [project |-> config.project,
     session_id |-> config.session_id,
     checkpoint_kind |-> "final",
     timestamp |-> t,
     hook_event |-> "SessionEnd",
     files_touched |-> <<>>,
     content_files |-> files,
     summary |-> IF structured.made /\ structured.summary # <<>>
                 THEN [template |-> "structured", text |-> structured.summary]
                 ELSE [template |-> "rollup", events |-> 0, files |-> <<>>],
     decisions |-> IF structured.made THEN Preferred(structured.decisions, decisions)
                   ELSE decisions,
     open_questions |-> IF structured.made THEN Preferred(structured.open_questions, open_questions)
                        ELSE open_questions,
     next_actions |-> IF structured.made THEN Preferred(structured.next_actions, next_actions)
                      ELSE next_actions,
     llm_summary_provider |-> structured.provider,
     summarized |-> count]

\* Every record the model holds carries a summary, so the generator is left
\* out only for an empty list of records.
RollupFrom(config, records, decisions, open_questions, next_actions, t) ==
    RollupPayload(config, Len(records),
                  Dedupe(Flatten([i \in 1..Len(records) |-> records[i].payload.files_touched])),
                  decisions, open_questions, next_actions,
                  GenerateRollupStructuredSummary(env, records = <<>>), t)

BuildRollupPayload(config, records, t) ==
    RollupFrom(config, records,
               DedupeText(Collected(records, RowDecisions)),
               DedupeText(Collected(records, RowOpenQuestions)),
               DedupeText(Collected(records, RowNextActions)), t)

PersistRollup(config, lg, t, net) ==
    LET records == LoadCheckpointRows(lg, config.project, config.session_id)
    IN  IF records = <<>> THEN lg
        ELSE AppendNdjson(lg,
                [event |-> "auto_rollup",
                 payload |-> BuildRollupPayload(config, records, t),
                 response |-> Ingest(config, net)])

-----------------------------------------------------------------------------
(* Handlers.  Each handler is given as three functions of the state it      *)
(* loaded: the dict after the mutations that precede the decision, the      *)
(* audit log after the documents it builds, and the dict it saves.          *)

WithTranscript(state, payload) ==
    IF payload.transcript_path # ""
    THEN [state EXCEPT !.transcript_path = payload.transcript_path]
    ELSE state

\* The four assignments that follow every checkpoint of post_tool_use,
\* task_completed and pre_compact.
AfterCheckpoint(state, t) ==
    [state EXCEPT !.last_checkpoint_epoch = t,
                  !.events_since_checkpoint = 0,
                  !.recent_events = <<>>,
                  !.checkpoints_created = @ + 1]

PostToolUseMutate(config, payload, event, s0) ==
    LET s1 == WithTranscript([s0 EXCEPT !.project = config.project], payload)
    IN  [s1 EXCEPT !.recent_events = LastN(Append(@, event), RecentCap),
                   !.events_since_checkpoint = @ + 1]

PostToolUseLog(config, s1, lg, t, net) ==
    IF ShouldIntervalCheckpoint(s1, config, t)
    THEN PersistCheckpoint(config, "interval", "PostToolUse", s1, lg, t, net)
    ELSE lg

PostToolUseFinal(config, s1, t) ==
    IF ShouldIntervalCheckpoint(s1, config, t) THEN AfterCheckpoint(s1, t) ELSE s1

TaskCompletedMutate(config, payload, s0) == WithTranscript(s0, payload)

TaskCompletedLog(config, s1, lg, t, net) ==
    IF s1.events_since_checkpoint <= 0 THEN lg
    ELSE PersistCheckpoint(config, "milestone", "TaskCompleted", s1, lg, t, net)

TaskCompletedFinal(config, s1, t) ==
    IF s1.events_since_checkpoint <= 0 THEN s1 ELSE AfterCheckpoint(s1, t)

PreCompactMutate(config, payload, s0) ==
    WithTranscript([s0 EXCEPT !.project = config.project], payload)

PreCompactLog(config, s1, lg, t, net) ==
    IF PreCompactSuppressed(s1, t) THEN lg
    ELSE PersistCheckpoint(config, "milestone", "PreCompact", s1, lg, t, net)

PreCompactFinal(config, s1, t) ==
    IF PreCompactSuppressed(s1, t) THEN s1 ELSE AfterCheckpoint(s1, t)

SessionEndMutate(config, payload, s0) == WithTranscript(s0, payload)

\* A session end that builds the rollup from the log as it finds it and
\* appends the final checkpoint afterwards.
SessionEndLogRollupFirst(config, s1, lg, t, net) ==
    LET lg1 == IF config.rollup_on_session_end THEN PersistRollup(config, lg, t, net) ELSE lg
    IN  IF s1.events_since_checkpoint > 0
        THEN PersistCheckpoint(config, "milestone", "SessionEnd", s1, lg1, t, net)
        ELSE lg1

SessionEndLog(config, s1, lg, t, net) ==
    LET lg1 == IF s1.events_since_checkpoint > 0
               THEN PersistCheckpoint(config, "milestone", "SessionEnd", s1, lg, t, net)
               ELSE lg
    IN  IF config.rollup_on_session_end THEN PersistRollup(config, lg1, t, net) ELSE lg1

SessionEndFinal(config, s1, t) ==
    LET s2 == IF s1.events_since_checkpoint > 0
              THEN [s1 EXCEPT !.checkpoints_created = @ + 1]
              ELSE s1
        s3 == IF config.rollup_on_session_end
              THEN [s2 EXCEPT !.last_rollup_epoch = t]
              ELSE s2
    IN  [s3 EXCEPT !.last_checkpoint_epoch = t,
                   !.events_since_checkpoint = 0,
                   !.recent_events = <<>>]

\* main's dispatch on --mode.
HandlerMutate(mode, config, payload, s0) ==
    CASE mode = "post_tool_use" -> PostToolUseMutate(config, payload, ExtractToolEvent(payload)[1], s0)
      [] mode = "task_completed" -> TaskCompletedMutate(config, payload, s0)
      [] mode = "pre_compact" -> PreCompactMutate(config, payload, s0)
      [] OTHER -> SessionEndMutate(config, payload, s0)

HandlerLog(mode, config, s1, lg, t, net) ==
    CASE mode = "post_tool_use" -> PostToolUseLog(config, s1, lg, t, net)
      [] mode = "task_completed" -> TaskCompletedLog(config, s1, lg, t, net)
      [] mode = "pre_compact" -> PreCompactLog(config, s1, lg, t, net)
      [] OTHER -> SessionEndLog(config, s1, lg, t, net)

HandlerFinal(mode, config, s1, t) ==
    CASE mode = "post_tool_use" -> PostToolUseFinal(config, s1, t)
      [] mode = "task_completed" -> TaskCompletedFinal(config, s1, t)
      [] mode = "pre_compact" -> PreCompactFinal(config, s1, t)
      [] OTHER -> SessionEndFinal(config, s1, t)

\* A post_tool_use payload that names no tool returns before the lock.
TouchesState(mode, payload) == mode # "post_tool_use" \/ ExtractToolEvent(payload) # <<>>

PayloadsOf(mode) == IF mode = "post_tool_use" THEN ToolPayloads ELSE SignalPayloads

-----------------------------------------------------------------------------
(* History variables of Spec *)

CheckpointRows(lg, from) ==
    {i \in (from + 1)..Len(lg) : lg[i].event = "auto_checkpoint"}

NoHist == [ok |-> FALSE, events |-> <<>>]

HistAfter(mode, payload) ==
    IF mode = "post_tool_use" /\ hist.ok /\ Len(hist.events) < cfg.min_events
    THEN [hist EXCEPT !.events = Append(@, ExtractToolEvent(payload)[1])]
    ELSE NoHist

-----------------------------------------------------------------------------
(* Spec: the hook invocations of one session, one after another *)

IdleProcs ==
    /\ fcntl = TRUE
    /\ holders = {}
    /\ pc = [p \in 1..NumProcs |-> "idle"]
    /\ inv = [p \in 1..NumProcs |-> [mode |-> "post_tool_use", payload |-> CHOOSE x \in SignalPayloads : TRUE]]
    /\ loc = [p \in 1..NumProcs |-> DefaultState("")]

NoDecision == [called |-> FALSE, result |-> FALSE]

\* No summarization backend, no .tmp file left behind, no POST made yet.
Undisturbed == env = NoBackendEnv /\ tmpFile = NoFile /\ remote = "none"

StaleFile ==
    SaveState([DefaultState(StaleSession) EXCEPT !.last_checkpoint_epoch = 1,
                                                  !.events_since_checkpoint = 1,
                                                  !.recent_events = <<[tool |-> "Edit", files |-> <<"old.py">>]>>,
                                                  !.checkpoints_created = 1,
                                                  !.transcript_path = "old.jsonl"])

Init ==
    /\ cfg \in {c \in Configs : ~c.api_key}
    /\ now = TickStep
    /\ steps = 0
    /\ stateFile \in {NoFile, GarbageFile, StaleFile}
    /\ log = <<>>
    /\ last = "none"
    /\ hist = [ok |-> TRUE, events |-> <<>>]
    /\ decision = NoDecision
    /\ IdleProcs
    /\ Undisturbed

Tick ==
    /\ steps < MaxSteps
    /\ now' = now + TickStep
    /\ steps' = steps + 1
    /\ UNCHANGED <<cfg, stateFile, log, last, hist, decision, fcntl, holders, pc, inv, loc, env, tmpFile, remote>>

\* One whole invocation of the hook in `mode`: lock, load, mutate, build and
\* log, save, unlock.
Handle(mode, payload, net) ==
    /\ steps < MaxSteps
    /\ IF TouchesState(mode, payload)
       THEN LET s0 == LoadState(stateFile, cfg.session_id)
                s1 == HandlerMutate(mode, cfg, payload, s0)
            IN  /\ steps' = steps + 1
                /\ log' = HandlerLog(mode, cfg, s1, log, now, net)
                /\ stateFile' = SaveState(HandlerFinal(mode, cfg, s1, now))
                /\ last' = mode
                /\ hist' = HistAfter(mode, payload)
                /\ remote' = IF HandlerLog(mode, cfg, s1, log, now, net) # log THEN net ELSE "none"
       ELSE UNCHANGED <<steps, stateFile, log, last, hist, remote>>
    /\ UNCHANGED <<cfg, now, decision, fcntl, holders, pc, inv, loc, env, tmpFile>>

HandlePostToolUse == \E payload \in ToolPayloads, net \in NetOutcomes(cfg) : Handle("post_tool_use", payload, net)

HandleTaskCompleted == \E payload \in SignalPayloads, net \in NetOutcomes(cfg) : Handle("task_completed", payload, net)

HandlePreCompact == \E payload \in SignalPayloads, net \in NetOutcomes(cfg) : Handle("pre_compact", payload, net)

HandleSessionEnd == \E payload \in SignalPayloads, net \in NetOutcomes(cfg) : Handle("session_end", payload, net)

Next == Tick \/ HandlePostToolUse \/ HandleTaskCompleted \/ HandlePreCompact \/ HandleSessionEnd

Spec == Init /\ [][Next]_vars

-----------------------------------------------------------------------------
(* SpecPolicy: _should_interval_checkpoint on bounded inputs *)

PolicyConfigs ==
    [project : {Project}, session_id : {ActiveSession},
     min_events : 1..MaxMinEvents,
     interval_seconds : 1..MaxPolicyInterval,
     api_key : {FALSE},
     rollup_on_session_end : {TRUE}]

PolicyStates ==
    {[DefaultState(ActiveSession) EXCEPT !.events_since_checkpoint = n,
                                         !.last_checkpoint_epoch = e] :
        n \in (0 - 1)..(2 * MaxMinEvents + 1), e \in (0 - 1)..MaxPolicyTime}

InitPolicy ==
    /\ cfg \in PolicyConfigs
    /\ now \in 0..MaxPolicyTime
    /\ steps = 0
    /\ stateFile \in {SaveState(st) : st \in PolicyStates}
    /\ log = <<>>
    /\ last = "none"
    /\ hist = NoHist
    /\ decision = NoDecision
    /\ IdleProcs
    /\ Undisturbed

Evaluate ==
    /\ ~decision.called
    /\ decision' = [called |-> TRUE,
                    result |-> ShouldIntervalCheckpoint(stateFile.data, cfg, now)]
    /\ UNCHANGED <<cfg, now, steps, stateFile, log, last, hist, fcntl, holders, pc, inv, loc, env, tmpFile, remote>>

NextPolicy == Evaluate

SpecPolicy == InitPolicy /\ [][NextPolicy]_vars

PolicyEvents == stateFile.data.events_since_checkpoint

PolicyEpoch == stateFile.data.last_checkpoint_epoch

PolicyElapsed == now - stateFile.data.last_checkpoint_epoch

\* C1: with fewer than min_events accumulated events the policy answers false,
\* whatever the time elapsed since the last checkpoint.
ThmC1_BelowFloorNeverFires ==
    (decision.called /\ PolicyEvents < cfg.min_events) => ~decision.result

WitC1_BelowFloorLongElapsed ==
    /\ decision.called
    /\ PolicyEvents = cfg.min_events - 1
    /\ PolicyEpoch > 0
    /\ PolicyElapsed >= cfg.interval_seconds
    /\ ~decision.result

\* C2: once the floor is met and no checkpoint has ever happened
\* (last_checkpoint_epoch = 0) the policy answers true.
ThmC2_FirstCheckpointFires ==
    (decision.called /\ PolicyEvents >= cfg.min_events /\ PolicyEpoch = 0) => decision.result

WitC2_FirstCheckpointAtFloor ==
    /\ decision.called
    /\ PolicyEvents = cfg.min_events
    /\ PolicyEpoch = 0
    /\ now < cfg.interval_seconds
    /\ decision.result

\* C3: with at least 2 * min_events accumulated events the policy answers
\* true, whatever the time elapsed (burst escape valve).
ThmC3_BurstFires ==
    (decision.called /\ PolicyEvents >= 2 * cfg.min_events) => decision.result

WitC3_BurstBeforeInterval ==
    /\ decision.called
    /\ PolicyEvents = 2 * cfg.min_events
    /\ PolicyEpoch > 0
    /\ PolicyElapsed < cfg.interval_seconds
    /\ decision.result

PolicyMiddleBand ==
    /\ decision.called
    /\ cfg.min_events <= PolicyEvents
    /\ PolicyEvents < 2 * cfg.min_events
    /\ PolicyEpoch > 0

\* C4 as stated: between the floor and the burst threshold, after a previous
\* checkpoint, the policy fires iff the elapsed time exceeds interval_seconds.
CexC4_FiresIffElapsedExceeds ==
    PolicyMiddleBand => (decision.result <=> PolicyElapsed > cfg.interval_seconds)

\* C4 amended: ... iff the elapsed time is at least interval_seconds.
ThmC4_FiresIffElapsedAtLeast ==
    PolicyMiddleBand => (decision.result <=> PolicyElapsed >= cfg.interval_seconds)

WitC4_FiresAtExactInterval ==
    /\ PolicyMiddleBand
    /\ PolicyElapsed = cfg.interval_seconds
    /\ decision.result

-----------------------------------------------------------------------------
(* Properties of Spec *)

HookName(mode) ==
    CASE mode = "post_tool_use" -> "PostToolUse"
      [] mode = "task_completed" -> "TaskCompleted"
      [] mode = "pre_compact" -> "PreCompact"
      [] OTHER -> "SessionEnd"

\* The step is one invocation of the hook in `mode` that took the lock.
HookStep(mode) == steps' = steps + 1 /\ now' = now /\ last' = mode

\* The state the invocation of this step loads.
Loaded == LoadState(stateFile, cfg.session_id)

HistFiles == Flatten([i \in 1..Len(hist.events) |-> hist.events[i].files])

FirstIndex(sq, x) == CHOOSE i \in 1..Len(sq) : sq[i] = x /\ \A j \in 1..(i - 1) : sq[j] # x

\* C5: from a fresh session state, while only post_tool_use events arrive, no
\* checkpoint is built for events 1..m-1 (m = min_events) and exactly one
\* interval checkpoint is built on event m; its files_touched lists the file
\* paths of those m events once each, in first-occurrence order.
ThmC5_FirstCheckpointOnEventM ==
    hist.ok =>
        /\ Len(hist.events) < cfg.min_events => log = <<>>
        /\ Len(hist.events) = cfg.min_events =>
            /\ Len(log) = 1
            /\ log[1].event = "auto_checkpoint"
            /\ log[1].payload.checkpoint_kind = "interval"
            /\ log[1].payload.summary.events = cfg.min_events
            /\ LET ft == log[1].payload.files_touched
               IN  /\ Range(ft) = Range(HistFiles)
                   /\ \A i, j \in 1..Len(ft) :
                        i < j => /\ ft[i] # ft[j]
                                 /\ FirstIndex(HistFiles, ft[i]) < FirstIndex(HistFiles, ft[j])

WitC5_DuplicateFileRemoved ==
    /\ hist.ok
    /\ cfg.min_events >= 2
    /\ Len(hist.events) = cfg.min_events
    /\ Len(log) = 1
    /\ Len(log[1].payload.files_touched) >= 1
    /\ Len(HistFiles) > Len(log[1].payload.files_touched)

WitC5_NoCheckpointBeforeM ==
    /\ hist.ok
    /\ Len(hist.events) = cfg.min_events - 1
    /\ Len(hist.events) >= 1
    /\ log = <<>>

\* C6: every task_completed, pre_compact and session_end invocation that
\* loads events_since_checkpoint > 0 appends a milestone checkpoint covering
\* those events, for every min_events, interval_seconds and time of the last
\* checkpoint.
ThmC6_MilestoneFiresOnPendingEvents ==
    [][\A mode \in Milestones :
          (HookStep(mode) /\ Loaded.events_since_checkpoint > 0) =>
              /\ Len(log') > Len(log)
              /\ SubSeq(log', 1, Len(log)) = log
              /\ log'[Len(log) + 1].event = "auto_checkpoint"
              /\ log'[Len(log) + 1].payload.checkpoint_kind = "milestone"
              /\ log'[Len(log) + 1].payload.hook_event = HookName(mode)
              /\ log'[Len(log) + 1].payload.summary.events = Loaded.events_since_checkpoint
              /\ log'[Len(log) + 1].payload.timestamp = now]_vars

\* A milestone checkpoint built below the floor, right after an interval checkpoint.
WitC6_MilestoneBelowFloorInsideInterval ==
    /\ last \in Milestones
    /\ Len(log) >= 2
    /\ log[Len(log)].event = "auto_checkpoint"
    /\ log[Len(log)].payload.hook_event = HookName(last)
    /\ log[Len(log)].payload.summary.events > 0
    /\ log[Len(log)].payload.summary.events < cfg.min_events
    /\ log[Len(log) - 1].payload.timestamp = log[Len(log)].payload.timestamp

LatestCheckpoint(lg) ==
    LET rows == CheckpointRows(lg, 0)
    IN  IF rows = {} THEN <<>> ELSE <<lg[CHOOSE i \in rows : \A j \in rows : j <= i]>>

\* C7: a milestone invocation that loads events_since_checkpoint = 0 and a
\* last checkpoint less than 30 seconds old builds no checkpoint document (no
\* auto_checkpoint record, checkpoints_created unchanged); in particular a
\* milestone signal that repeats the previous invocation's signal, less than
\* 30 seconds after that signal built a checkpoint, builds none.
ThmC7_MilestoneSuppressedInWindow ==
    [][\A mode \in Milestones :
          /\ (/\ HookStep(mode)
              /\ Loaded.events_since_checkpoint = 0
              /\ Loaded.last_checkpoint_epoch > 0
              /\ now - Loaded.last_checkpoint_epoch < SuppressWindow)
             => /\ CheckpointRows(log', Len(log)) = {}
                /\ stateFile'.data.checkpoints_created = Loaded.checkpoints_created
          /\ (/\ HookStep(mode)
              /\ last = mode
              /\ LatestCheckpoint(log) # <<>>
              /\ LatestCheckpoint(log)[1].payload.hook_event = HookName(mode)
              /\ now - LatestCheckpoint(log)[1].payload.timestamp < SuppressWindow)
             => CheckpointRows(log', Len(log)) = {}]_vars

\* pre_compact ran less than 30 seconds after a checkpoint of another hook,
\* with nothing accumulated, and built nothing.
WitC7_PreCompactSuppressed ==
    /\ last = "pre_compact"
    /\ stateFile.kind = "object"
    /\ stateFile.data.events_since_checkpoint = 0
    /\ stateFile.data.last_checkpoint_epoch > 0
    /\ now - stateFile.data.last_checkpoint_epoch < SuppressWindow
    /\ LatestCheckpoint(log) # <<>>
    /\ LatestCheckpoint(log)[1].payload.hook_event = "PostToolUse"
    /\ LatestCheckpoint(log)[1].payload.timestamp = stateFile.data.last_checkpoint_epoch

-----------------------------------------------------------------------------
(* SpecConc: hook invocations as concurrent processes *)

Procs == 1..NumProcs

\* Positions of a process between `with _state_lock(...)` and the end of it.
InsideLock == {"load", "build", "save", "unlock"}

\* flock(LOCK_EX) blocks while another open file description holds the lock;
\* without the fcntl module the context manager does not lock at all.
LockAvailable == ~fcntl \/ holders = {}

HoldersAfterAcquire(p) == IF fcntl THEN holders \cup {p} ELSE holders

\* A finally clause that does not unlock.
HoldersKeptOnExit(p) == holders

\* The finally clause of _state_lock: flock(LOCK_UN).
HoldersAfterExit(p) == holders \ {p}

ConcConfigs == {c \in Configs : ~c.api_key /\ c.rollup_on_session_end}

InitConc ==
    /\ cfg \in ConcConfigs
    /\ now = TickStep
    /\ steps = 0
    /\ stateFile = NoFile
    /\ log = <<>>
    /\ last = "none"
    /\ hist = NoHist
    /\ decision = NoDecision
    /\ fcntl \in BOOLEAN
    /\ holders = {}
    /\ pc = [p \in Procs |-> "idle"]
    /\ inv = [p \in Procs |-> [mode |-> "post_tool_use", payload |-> CHOOSE x \in SignalPayloads : TRUE]]
    /\ loc = [p \in Procs |-> DefaultState("")]
    /\ Undisturbed

\* main() dispatches on --mode; post_tool_use returns before the lock when
\* the payload carries no tool event.
Invoke(p, mode, payload) ==
    /\ pc[p] = "idle"
    /\ inv' = [inv EXCEPT ![p] = [mode |-> mode, payload |-> payload]]
    /\ pc' = [pc EXCEPT ![p] = IF TouchesState(mode, payload) THEN "lock" ELSE "done"]
    /\ UNCHANGED <<cfg, now, steps, stateFile, log, last, hist, decision, fcntl, holders, loc, env, tmpFile, remote>>

Acquire(p) ==
    /\ pc[p] = "lock"
    /\ LockAvailable
    /\ holders' = HoldersAfterAcquire(p)
    /\ pc' = [pc EXCEPT ![p] = "load"]
    /\ UNCHANGED <<cfg, now, steps, stateFile, log, last, hist, decision, fcntl, inv, loc, env, tmpFile, remote>>

\* _load_state and the handler's updates of the dict before any file is written.
Load(p) ==
    /\ pc[p] = "load"
    /\ loc' = [loc EXCEPT ![p] = HandlerMutate(inv[p].mode, cfg, inv[p].payload,
                                                LoadState(stateFile, cfg.session_id))]
    /\ pc' = [pc EXCEPT ![p] = "build"]
    /\ UNCHANGED <<cfg, now, steps, stateFile, log, last, hist, decision, fcntl, holders, inv, env, tmpFile, remote>>

\* _persist_checkpoint / _persist_rollup (build, ingest, append to the log)
\* and the handler's reset of the dict after it.
Build(p) ==
    /\ pc[p] = "build"
    /\ \E net \in NetOutcomes(cfg) :
         log' = HandlerLog(inv[p].mode, cfg, loc[p], log, now, net)
    /\ loc' = [loc EXCEPT ![p] = HandlerFinal(inv[p].mode, cfg, loc[p], now)]
    /\ pc' = [pc EXCEPT ![p] = "save"]
    /\ UNCHANGED <<cfg, now, steps, stateFile, last, hist, decision, fcntl, holders, inv, env, tmpFile, remote>>

Save(p) ==
    /\ pc[p] = "save"
    /\ stateFile' = SaveState(loc[p])
    /\ pc' = [pc EXCEPT ![p] = "unlock"]
    /\ UNCHANGED <<cfg, now, steps, log, last, hist, decision, fcntl, holders, inv, loc, env, tmpFile, remote>>

\* Normal exit of the with block, early returns included.
Unlock(p) ==
    /\ pc[p] = "unlock"
    /\ holders' = HoldersAfterExit(p)
    /\ pc' = [pc EXCEPT ![p] = "done"]
    /\ loc' = [loc EXCEPT ![p] = DefaultState("")]
    /\ UNCHANGED <<cfg, now, steps, stateFile, log, last, hist, decision, fcntl, inv, env, tmpFile, remote>>

\* An exception (an OSError of a file operation, say) raised by the next
\* step inside the with block: the step has no effect, the finally clause
\* runs and the exception leaves the handler.
Raise(p) ==
    /\ pc[p] \in {"load", "build", "save"}
    /\ holders' = HoldersAfterExit(p)
    /\ pc' = [pc EXCEPT ![p] = "raised"]
    /\ loc' = [loc EXCEPT ![p] = DefaultState("")]
    /\ UNCHANGED <<cfg, now, steps, stateFile, log, last, hist, decision, fcntl, inv, env, tmpFile, remote>>

NextConc ==
    \E p \in Procs :
        \/ \E mode \in Modes : \E payload \in PayloadsOf(mode) : Invoke(p, mode, payload)
        \/ Acquire(p)
        \/ Load(p)
        \/ Build(p)
        \/ Save(p)
        \/ Unlock(p)
        \/ Raise(p)

SpecConc == InitConc /\ [][NextConc]_vars

-----------------------------------------------------------------------------
(* Properties of SpecConc *)

InCriticalSection == {p \in Procs : pc[p] \in InsideLock}

Started == {p \in Procs : pc[p] # "idle"}

\* C8: for one state file at most one hook invocation at a time is inside
\* the critical section load -> mutate -> (build + send + log) -> save.
CexC8_OneInvocationInCriticalSection == Cardinality(InCriticalSection) <= 1

\* The exclusion holds in the behaviours where the fcntl module is present.
ExclusiveUnderFlock == fcntl => Cardinality(InCriticalSection) <= 1

\* Two invocations are between their load and their save at the same time.
TwoLoadedBeforeEitherSaved ==
    \E p, q \in Procs : p # q /\ pc[p] \in {"build", "save"} /\ pc[q] \in {"build", "save"}

\* The files after the invocation of process p has run alone on them.  With
\* no api key _ingest returns None whatever the network does.
SerialStep(files, p) ==
    IF TouchesState(inv[p].mode, inv[p].payload)
    THEN LET s1 == HandlerMutate(inv[p].mode, cfg, inv[p].payload, LoadState(files[1], cfg.session_id))
         IN  <<SaveState(HandlerFinal(inv[p].mode, cfg, s1, now)),
               HandlerLog(inv[p].mode, cfg, s1, files[2], now, "fail")>>
    ELSE files

RECURSIVE SerialRun(_, _, _)
SerialRun(order, i, files) ==
    IF i > Len(order) THEN files ELSE SerialRun(order, i + 1, SerialStep(files, order[i]))

Orders(S) ==
    {o \in [1..Cardinality(S) -> S] : \A i, j \in 1..Cardinality(S) : o[i] = o[j] => i = j}

RECURSIVE EventsConsumed(_)
EventsConsumed(lg) ==
    IF lg = <<>> THEN 0
    ELSE (IF Head(lg).event = "auto_checkpoint" THEN Head(lg).payload.summary.events ELSE 0)
         + EventsConsumed(Tail(lg))

\* Every invocation started so far is a post_tool_use that has returned.
PostToolUseRunsReturned ==
    /\ Started # {}
    /\ \A p \in Started : pc[p] = "done" /\ inv[p].mode = "post_tool_use"

EventsSent == Cardinality({p \in Started : TouchesState(inv[p].mode, inv[p].payload)})

Serializable ==
    /\ \E order \in Orders(Started) : SerialRun(order, 1, <<NoFile, <<>>>>) = <<stateFile, log>>
    /\ EventsConsumed(log) + stateFile.data.events_since_checkpoint = EventsSent

\* C9: once N concurrent post_tool_use invocations of one session have
\* returned, the state file and the audit log equal those left by some serial
\* order of the N invocations, and the events consumed by the checkpoints
\* built plus the final events_since_checkpoint equal N.
CexC9_ConcurrentEventsSerialize == PostToolUseRunsReturned => Serializable

\* The same holds in the behaviours where the fcntl module is present.
SerializeUnderFlock == (fcntl /\ PostToolUseRunsReturned) => Serializable

\* C10: the state lock is released on every exit path of a handler (normal
\* end, early return, exception inside the critical section): a process
\* outside the with block holds no lock, and when no process is inside it
\* the next invocation can acquire the lock.
ThmC10_LockReleasedOnEveryExit ==
    /\ \A p \in Procs : pc[p] \notin InsideLock => p \notin holders
    /\ InCriticalSection = {} => LockAvailable

\* An invocation raised inside the critical section and another one holds
\* the lock afterwards.
WitC10_AcquiredAfterException ==
    /\ fcntl
    /\ \E p, q \in Procs :
         /\ pc[p] = "raised"
         /\ inv[p].mode = "task_completed"
         /\ q \in holders
         /\ pc[q] \in InsideLock

-----------------------------------------------------------------------------
(* SpecStore: one load, or one hook invocation, on an arbitrary stored file *)

StoreConfigs == {c \in Configs : ~c.api_key /\ c.rollup_on_session_end}

\* Keys an object may lack, and keys whose value may have an unexpected type.
StoredKeys == ConvertedKeys \cup {"session_id", "recent_events"}

\* data keeps the default value at the keys that are absent or odd.
Blank(data, keys) ==
    [k \in DOMAIN data |-> IF k \in keys THEN DefaultState("")[k] ELSE data[k]]

StoredStates ==
    {[DefaultState(sid) EXCEPT !.project = Project,
                               !.events_since_checkpoint = n,
                               !.recent_events = [i \in 1..n |-> [tool |-> "Edit", files |-> <<"old.py">>]],
                               !.last_checkpoint_epoch = e,
                               !.checkpoints_created = IF e > 0 THEN 1 ELSE 0,
                               !.transcript_path = "old.jsonl"] :
        sid \in {ActiveSession, StaleSession}, n \in 0..1, e \in {0, TickStep}}

StoredObjects ==
    {[kind |-> "object", data |-> Blank(d, a \cup o), absent |-> a, odd |-> o] :
        d \in StoredStates, a \in SUBSET {"session_id"}, o \in SUBSET StoredKeys}

StoredFiles ==
    {NoFile, UnreadableFile, UndecodableFile, GarbageFile, NonObjectFile}
        \cup {f \in StoredObjects : f.absent \cap f.odd = {}}

InitStore ==
    /\ cfg \in StoreConfigs
    /\ now = 2 * TickStep
    /\ steps = 0
    /\ stateFile \in StoredFiles
    /\ log = <<>>
    /\ last = "none"
    /\ hist = NoHist
    /\ decision = NoDecision
    /\ IdleProcs
    /\ Undisturbed

\* _load_state(config.state_path, config.session_id) alone.
LoadOnly ==
    /\ pc[1] = "idle"
    /\ IF LoadRaises(stateFile)
       THEN pc' = [pc EXCEPT ![1] = "load_raised"] /\ loc' = loc
       ELSE /\ pc' = [pc EXCEPT ![1] = "loaded"]
            /\ loc' = [loc EXCEPT ![1] = LoadState(stateFile, cfg.session_id)]
    /\ UNCHANGED <<cfg, now, steps, stateFile, log, last, hist, decision, fcntl, holders, inv,
                   env, tmpFile, remote>>

FiresCheckpoint(mode, config, s1, t) ==
    CASE mode = "post_tool_use" -> ShouldIntervalCheckpoint(s1, config, t)
      [] mode = "pre_compact" -> ~PreCompactSuppressed(s1, t)
      [] OTHER -> s1.events_since_checkpoint > 0

\* Where the handler raises on a dict whose counters in `odd` cannot be
\* converted: "before" any file is written (int() of events_since_checkpoint
\* at lines 1205, 1229, 1258, 1284, float() of last_checkpoint_epoch at lines
\* 1183, 1257), "after" the checkpoint was logged (int() of
\* checkpoints_created at lines 1217, 1242, 1272, 1292), or "none".
RaiseStage(mode, config, odd, s1, t) ==
    IF "events_since_checkpoint" \in odd THEN "before"
    ELSE IF "last_checkpoint_epoch" \in odd
            /\ \/ mode = "pre_compact"
               \/ mode = "post_tool_use" /\ s1.events_since_checkpoint >= config.min_events
         THEN "before"
    ELSE IF "checkpoints_created" \in odd /\ FiresCheckpoint(mode, config, s1, t) THEN "after"
    ELSE "none"

\* task_completed and session_end overwrite last_checkpoint_epoch without
\* reading it; every other counter is read before it is written.
OddAfter(mode, config, odd, s1, t) ==
    IF mode = "session_end" \/ (mode = "task_completed" /\ FiresCheckpoint(mode, config, s1, t))
    THEN odd \ {"last_checkpoint_epoch"}
    ELSE odd

\* main() for one invocation: exit status 0 ("done") or a traceback and a
\* non-zero status ("raised").
RunHook(mode, payload) ==
    /\ pc[1] = "idle"
    /\ inv' = [inv EXCEPT ![1] = [mode |-> mode, payload |-> payload]]
    /\ IF ~TouchesState(mode, payload)
       THEN pc' = [pc EXCEPT ![1] = "done"] /\ UNCHANGED <<stateFile, log, last>>
       ELSE IF LoadRaises(stateFile)
       THEN pc' = [pc EXCEPT ![1] = "raised"] /\ UNCHANGED <<stateFile, log, last>>
       ELSE LET s0 == LoadState(stateFile, cfg.session_id)
                odd == LoadedOdd(stateFile, cfg.session_id)
                s1 == HandlerMutate(mode, cfg, payload, s0)
                stage == RaiseStage(mode, cfg, odd, s1, now)
            IN  /\ last' = mode
                /\ pc' = [pc EXCEPT ![1] = IF stage = "none" THEN "done" ELSE "raised"]
                /\ log' = CASE stage = "before" -> log
                            [] stage = "after" ->
                                 PersistCheckpoint(cfg, IF mode = "post_tool_use" THEN "interval" ELSE "milestone",
                                                   HookName(mode), s1, log, now, "none")
                            [] OTHER -> HandlerLog(mode, cfg, s1, log, now, "none")
                /\ stateFile' = IF stage = "none"
                                THEN [SaveState(HandlerFinal(mode, cfg, s1, now))
                                        EXCEPT !.odd = OddAfter(mode, cfg, odd, s1, now)]
                                ELSE stateFile
    /\ UNCHANGED <<cfg, now, steps, hist, decision, fcntl, holders, loc, env, tmpFile, remote>>

NextStore ==
    \/ LoadOnly
    \/ \E mode \in Modes : \E payload \in PayloadsOf(mode) : RunHook(mode, payload)

SpecStore == InitStore /\ [][NextStore]_vars

-----------------------------------------------------------------------------
(* Properties of SpecStore *)

\* The stored object names a session other than the active one.
HoldsOtherSession ==
    /\ stateFile.kind = "object"
    /\ "session_id" \notin stateFile.absent
    /\ "session_id" \in stateFile.odd \/ stateFile.data.session_id # cfg.session_id

\* C11: when the state file holds a session_id different from the active
\* session's, _load_state returns the fresh default state of the active
\* session: no counter, event, timestamp or transcript path is carried over.
ThmC11_StaleSessionNeverMerged ==
    (pc[1] = "loaded" /\ HoldsOtherSession) =>
        /\ loc[1] = DefaultState(cfg.session_id)
        /\ LoadedOdd(stateFile, cfg.session_id) = {}

WitC11_StaleCountersDropped ==
    /\ pc[1] = "loaded"
    /\ stateFile.kind = "object"
    /\ stateFile.absent = {}
    /\ stateFile.odd = {}
    /\ stateFile.data.session_id = StaleSession
    /\ stateFile.data.events_since_checkpoint > 0
    /\ stateFile.data.last_checkpoint_epoch > 0
    /\ stateFile.data.transcript_path # ""
    /\ loc[1].events_since_checkpoint = 0

\* The stored object carries the active session's id.
HoldsActiveSession ==
    /\ stateFile.kind = "object"
    /\ "session_id" \notin stateFile.absent \cup stateFile.odd
    /\ stateFile.data.session_id = cfg.session_id

\* C12: for every content of the state storage _load_state returns without
\* raising; it returns the stored state when the content is a JSON object
\* whose session_id matches the active session, and the fresh default state
\* otherwise.
CexC12_LoadNeverRaises ==
    pc[1] \in {"loaded", "load_raised"} =>
        /\ pc[1] = "loaded"
        /\ loc[1] = IF HoldsActiveSession THEN Merged(stateFile, cfg.session_id)
                    ELSE DefaultState(cfg.session_id)

\* Every content but bytes that are not UTF-8 is loaded without raising, and
\* every content but an object without a session_id key as C12 says.
LoadReturnsOnDecodableText ==
    (pc[1] \in {"loaded", "load_raised"} /\ stateFile.kind # "undecodable") =>
        /\ pc[1] = "loaded"
        /\ "session_id" \notin stateFile.absent =>
             loc[1] = IF HoldsActiveSession THEN Merged(stateFile, cfg.session_id)
                      ELSE DefaultState(cfg.session_id)

\* The stored content is corrupted: no JSON object, or an object of the
\* active session with a value of unexpected type.
Corrupted(file) ==
    \/ file.kind \in {"unreadable", "undecodable", "garbage", "nonobject"}
    \/ /\ SessionMatches(file, cfg.session_id)
       /\ (file.odd \ file.absent) \cap (ConvertedKeys \cup {"recent_events"}) # {}

\* The file the invocation of this step would save had it started from the
\* default state.
SavedFromDefault ==
    SaveState(HandlerFinal(inv'[1].mode, cfg,
                           HandlerMutate(inv'[1].mode, cfg, inv'[1].payload, DefaultState(cfg.session_id)),
                           now))

\* C13: a hook invocation that finds a corrupted state file continues from
\* the default state and completes with exit status 0.
CexC13_CorruptionNeverSurfaces ==
    [][(/\ pc[1] = "idle"
        /\ pc'[1] \in {"done", "raised"}
        /\ TouchesState(inv'[1].mode, inv'[1].payload)
        /\ Corrupted(stateFile))
       => (pc'[1] = "done" /\ stateFile' = SavedFromDefault)]_vars

\* A file that is no JSON object at all, undecodable bytes aside, is recovered from.
RecoversFromNonObject ==
    [][(/\ pc[1] = "idle"
        /\ pc'[1] \in {"done", "raised"}
        /\ TouchesState(inv'[1].mode, inv'[1].payload)
        /\ stateFile.kind \in {"unreadable", "garbage", "nonobject"})
       => (pc'[1] = "done" /\ stateFile' = SavedFromDefault)]_vars

-----------------------------------------------------------------------------
(* SpecSave: _save_state step by step, with crashes *)

\* A file whose write was cut short: empty, or a prefix of the JSON text.
TornFile == [kind |-> "torn", data |-> DefaultState(""), absent |-> {}, odd |-> {}]

SaveCandidates == {st \in StoredStates : st.session_id = ActiveSession}

\* A write that goes to the final path itself.
StateFileWrittenInPlace(content) == content

\* write_text writes to the sibling .tmp path: the final path is untouched.
StateFileAfterWrite(content) == stateFile

InitSave ==
    /\ cfg \in StoreConfigs
    /\ now = TickStep
    /\ steps = 0
    /\ stateFile \in {NoFile, StaleFile}
    /\ log = <<>>
    /\ last = "none"
    /\ hist = [ok |-> FALSE, events |-> <<>>, before |-> NoFile]
    /\ decision = NoDecision
    /\ IdleProcs
    /\ Undisturbed

\* _save_state(path, state) is entered with some state dict.
BeginSave ==
    /\ pc[1] = "idle"
    /\ steps < MaxSteps
    /\ steps' = steps + 1
    /\ \E st \in SaveCandidates : loc' = [loc EXCEPT ![1] = st]
    /\ hist' = [hist EXCEPT !.before = stateFile]
    /\ pc' = [pc EXCEPT ![1] = "open"]
    /\ UNCHANGED <<cfg, now, stateFile, log, last, decision, fcntl, holders, inv, env, tmpFile, remote>>

\* write_text opens the .tmp file for writing, which truncates it.
OpenTmp ==
    /\ pc[1] = "open"
    /\ tmpFile' = TornFile
    /\ stateFile' = StateFileAfterWrite(TornFile)
    /\ pc' = [pc EXCEPT ![1] = "write"]
    /\ UNCHANGED <<cfg, now, steps, log, last, hist, decision, fcntl, holders, inv, loc, env, remote>>

\* write_text has written the whole JSON text and closed the file.
WriteTmp ==
    /\ pc[1] = "write"
    /\ tmpFile' = SaveState(loc[1])
    /\ stateFile' = StateFileAfterWrite(SaveState(loc[1]))
    /\ pc' = [pc EXCEPT ![1] = "rename"]
    /\ UNCHANGED <<cfg, now, steps, log, last, hist, decision, fcntl, holders, inv, loc, env, remote>>

\* tmp.replace(path): an atomic rename over the final path.
ReplaceFile ==
    /\ pc[1] = "rename"
    /\ stateFile' = tmpFile
    /\ tmpFile' = NoFile
    /\ pc' = [pc EXCEPT ![1] = "idle"]
    /\ UNCHANGED <<cfg, now, steps, log, last, hist, decision, fcntl, holders, inv, loc, env, remote>>

\* The process dies inside _save_state; the files stay as they are and a
\* later invocation may save again.
Crash ==
    /\ pc[1] \in {"open", "write", "rename"}
    /\ pc' = [pc EXCEPT ![1] = "idle"]
    /\ last' = "crashed"
    /\ UNCHANGED <<cfg, now, steps, stateFile, log, hist, decision, fcntl, holders, inv, loc,
                   env, tmpFile, remote>>

NextSave == BeginSave \/ OpenTmp \/ WriteTmp \/ ReplaceFile \/ Crash

SpecSave == InitSave /\ [][NextSave]_vars

\* C14: at every step of _save_state, and after a crash at any step of it,
\* the file at the final state path holds either the complete previously
\* saved state or the complete new state, never a partially written one.
ThmC14_FinalPathNeverTorn ==
    /\ stateFile.kind # "torn"
    /\ steps > 0 => stateFile \in {hist.before, SaveState(loc[1])}

\* The process crashed while the .tmp file was half written.
WitC14_CrashMidWrite ==
    /\ last = "crashed"
    /\ pc[1] = "idle"
    /\ tmpFile.kind = "torn"
    /\ stateFile.kind = "object"
    /\ stateFile = hist.before
    /\ stateFile # SaveState(loc[1])

-----------------------------------------------------------------------------
(* SpecSessions: two sessions of one project directory take turns *)

OtherSession == "sess-b"

SessionIds == {ActiveSession, OtherSession}

\* _load_config derives state_path from cwd and REMEM_MEMORY_STATE_FILE only:
\* every session of the project directory gets the same path.
ConfigOf(sid) == [cfg EXCEPT !.session_id = sid]

\* The state file one whole invocation leaves behind.
FileAfter(config, mode, payload, file, t) ==
    SaveState(HandlerFinal(mode, config,
                           HandlerMutate(mode, config, payload, LoadState(file, config.session_id)), t))

InitSessions ==
    /\ cfg \in StoreConfigs
    /\ now = TickStep
    /\ steps = 0
    /\ stateFile = NoFile
    /\ log = <<>>
    /\ last = "none"
    /\ hist = [ok |-> FALSE, events |-> <<>>, solo |-> [sid \in SessionIds |-> NoFile]]
    /\ decision = NoDecision
    /\ IdleProcs
    /\ Undisturbed

\* One whole invocation of the hook by session sid.  hist.solo[sid] follows
\* the state file the session would have were it alone in the directory.
HandleAs(sid, mode, payload) ==
    /\ steps < MaxSteps
    /\ TouchesState(mode, payload)
    /\ steps' = steps + 1
    /\ stateFile' = FileAfter(ConfigOf(sid), mode, payload, stateFile, now)
    /\ log' = HandlerLog(mode, ConfigOf(sid),
                         HandlerMutate(mode, ConfigOf(sid), payload, LoadState(stateFile, sid)),
                         log, now, "none")
    /\ hist' = [hist EXCEPT !.solo[sid] = FileAfter(ConfigOf(sid), mode, payload, @, now)]
    /\ last' = mode
    /\ UNCHANGED <<cfg, now, decision, fcntl, holders, pc, inv, loc, env, tmpFile, remote>>

\* The invocations the sessions make: tool events on a file of their own
\* and task completions.
SessionModes == {"post_tool_use", "task_completed"}

SessionPayloads(sid, mode) ==
    IF mode = "post_tool_use"
    THEN {[tool_name |-> "Write", file_path |-> IF sid = ActiveSession THEN "a.py" ELSE "b.py",
           transcript_path |-> "t.jsonl"]}
    ELSE SignalPayloads

NextSessions ==
    \E sid \in SessionIds, mode \in SessionModes :
        \E payload \in SessionPayloads(sid, mode) : HandleAs(sid, mode, payload)

SpecSessions == InitSessions /\ [][NextSessions]_vars

\* The session whose invocation wrote the state file last.
Writer == stateFile.data.session_id

\* C15: session state is kept per (project, session_id): when invocations of
\* two session ids interleave in one project directory, each session's
\* events_since_checkpoint, recent_events and checkpoints_created accumulate
\* as if the session were alone; an event of one session never resets the
\* state of the other.
CexC15_SessionsAccumulateIndependently ==
    stateFile.kind = "object" =>
        /\ stateFile.data.events_since_checkpoint = hist.solo[Writer].data.events_since_checkpoint
        /\ stateFile.data.recent_events = hist.solo[Writer].data.recent_events
        /\ stateFile.data.checkpoints_created = hist.solo[Writer].data.checkpoints_created

\* While a single session uses the directory its state accumulates.
OneSessionAccumulates ==
    (stateFile.kind = "object" /\ hist.solo[OtherSession] = NoFile) => stateFile = hist.solo[ActiveSession]

-----------------------------------------------------------------------------
(* SpecRecent: a session whose floor lies above the cap of recent_events *)

RecentConfigs ==
    {[c EXCEPT !.min_events = RecentCap + MaxMinEvents] : c \in StoreConfigs}

\* The k-th tool event of the session so far: files a.py and b.py in turn.
EarlierPayload(k) ==
    [tool_name |-> "Write", file_path |-> IF k % 2 = 1 THEN "a.py" ELSE "b.py",
     transcript_path |-> "t.jsonl"]

EarlierEvents(k) == [i \in 1..k |-> ExtractToolEvent(EarlierPayload(i))[1]]

\* The state file after the first k tool events of a fresh session, k below
\* the cap and below the floor: every event was counted and kept, and no
\* checkpoint was built.
FileAfterEvents(config, k) ==
    IF k = 0 THEN NoFile
    ELSE SaveState([DefaultState(config.session_id) EXCEPT
                        !.project = config.project,
                        !.transcript_path = "t.jsonl",
                        !.events_since_checkpoint = k,
                        !.recent_events = EarlierEvents(k)])

InitRecent ==
    /\ cfg \in RecentConfigs
    /\ now = TickStep
    /\ steps = 0
    /\ \E k \in {0, RecentCap - 1} :
         /\ stateFile = FileAfterEvents(cfg, k)
         /\ hist = [ok |-> TRUE, events |-> EarlierEvents(k)]
    /\ log = <<>>
    /\ last = "none"
    /\ decision = NoDecision
    /\ IdleProcs
    /\ Undisturbed

\* One whole invocation.  hist.events follows the tool events received since
\* the last checkpoint (session_end empties the list even when it has
\* nothing to checkpoint).
HandleCounted(mode, payload) ==
    /\ steps < MaxSteps
    /\ TouchesState(mode, payload)
    /\ LET s1 == HandlerMutate(mode, cfg, payload, LoadState(stateFile, cfg.session_id))
       IN  /\ log' = HandlerLog(mode, cfg, s1, log, now, "none")
           /\ hist' = [hist EXCEPT !.events =
                          IF FiresCheckpoint(mode, cfg, s1, now) \/ mode = "session_end" THEN <<>>
                          ELSE IF mode = "post_tool_use" THEN Append(@, ExtractToolEvent(payload)[1])
                          ELSE @]
    /\ stateFile' = FileAfter(cfg, mode, payload, stateFile, now)
    /\ steps' = steps + 1
    /\ last' = mode
    /\ UNCHANGED <<cfg, now, decision, fcntl, holders, pc, inv, loc, env, tmpFile, remote>>

NextRecent == \E mode \in Modes : \E payload \in PayloadsOf(mode) : HandleCounted(mode, payload)

SpecRecent == InitRecent /\ [][NextRecent]_vars

\* C16: in every persisted state recent_events holds at most 30 events, and
\* they are the most recent events received since the last checkpoint, in
\* arrival order with the newest last.
ThmC16_RecentEventsBounded ==
    LET recent == stateFile.data.recent_events
        dropped == Len(hist.events) - Len(recent)
    IN  /\ Len(recent) <= RecentCap
        /\ Len(recent) = IF Len(hist.events) < RecentCap THEN Len(hist.events) ELSE RecentCap
        /\ \A i \in 1..Len(recent) : recent[i] = hist.events[dropped + i]

\* More than 30 events arrived since the last checkpoint.
WitC16_OldestEventsDropped ==
    /\ Len(hist.events) > RecentCap
    /\ Len(stateFile.data.recent_events) = RecentCap
    /\ stateFile.data.recent_events[RecentCap] = hist.events[Len(hist.events)]
    /\ stateFile.data.recent_events[1] = hist.events[Len(hist.events) - RecentCap + 1]
    /\ stateFile.data.recent_events[1] # hist.events[1]

-----------------------------------------------------------------------------
(* SpecRemote: the invocations of Spec with and without a credential *)

\* The session starts after the clock has ticked through half of the step
\* budget.
InitRemote ==
    /\ cfg \in {c \in Configs : c.min_events = 1 /\ c.rollup_on_session_end}
    /\ steps = MaxSteps \div 2
    /\ now = TickStep * (1 + MaxSteps \div 2)
    /\ stateFile = NoFile
    /\ log = <<>>
    /\ last = "none"
    /\ hist = NoHist
    /\ decision = NoDecision
    /\ IdleProcs
    /\ Undisturbed

SpecRemote == InitRemote /\ [][Next]_vars

\* The dict of this step's invocation when it reaches its decision (the
\* decision of no handler depends on which tool or transcript the payload names).
Decided(mode) ==
    HandlerMutate(mode, cfg, CHOOSE x \in PayloadsOf(mode) : TouchesState(mode, x), Loaded)

\* Documents the invocation of this step builds: a checkpoint when its
\* trigger fires, and on session_end a rollup when the log holds a
\* checkpoint of the session by then.
DocumentsBuilt(mode) ==
    LET checkpoint == IF FiresCheckpoint(mode, cfg, Decided(mode), now) THEN 1 ELSE 0
        rows == LoadCheckpointRows(log, cfg.project, cfg.session_id)
        rollup == IF mode = "session_end" /\ cfg.rollup_on_session_end
                     /\ (checkpoint = 1 \/ rows # <<>>) THEN 1 ELSE 0
    IN  checkpoint + rollup

NewRows == (Len(log) + 1)..Len(log')

\* What the remote sent back in its 2xx answer.
BodySent(outcome) ==
    CASE outcome = "ok_json" -> RemoteBody
      [] outcome = "ok_empty" -> ""
      [] OTHER -> "<html>"

\* C17 as stated: every document built is followed by exactly one audit-log
\* record, for every remote outcome; the record's response is the remote
\* response on success and null in every other case; a failed post never
\* makes the invocation fail.
CexC17_ResponseIsRemoteAnswerOnSuccess ==
    [][\A mode \in Modes :
          HookStep(mode) =>
              /\ SubSeq(log', 1, Len(log)) = log
              /\ Len(log') - Len(log) = DocumentsBuilt(mode)
              /\ stateFile'.kind = "object"
              /\ \A i \in NewRows :
                    log'[i].response =
                        IF remote' \in {"ok_json", "ok_empty", "ok_not_json"}
                        THEN BodySent(remote') ELSE "null"]_vars

\* C17 amended: the record's response is the parsed JSON body of a 2xx
\* answer, {"ok": true} when that body is empty, and null in every other
\* case: no credential, a 2xx body that is not JSON, a non-2xx answer, a
\* transport error or a timeout.
ThmC17_EveryDocumentLoggedOnce ==
    [][\A mode \in Modes :
          HookStep(mode) =>
              /\ SubSeq(log', 1, Len(log)) = log
              /\ Len(log') - Len(log) = DocumentsBuilt(mode)
              /\ stateFile'.kind = "object"
              /\ ~cfg.api_key => remote' = "none"
              /\ \A i \in NewRows :
                    log'[i].response =
                        CASE remote' = "ok_json" -> RemoteBody
                          [] remote' = "ok_empty" -> SyntheticOk
                          [] OTHER -> "null"]_vars

\* A checkpoint was accepted by the remote and the next document's post
\* failed: both are in the log and the invocation saved its state.
WitC17_FailedPostStillLogged ==
    /\ cfg.api_key
    /\ remote \in {"http_error", "url_error", "timeout"}
    /\ Len(log) >= 2
    /\ log[1].response = RemoteBody
    /\ log[Len(log)].response = "null"
    /\ stateFile.kind = "object"

-----------------------------------------------------------------------------
(* Fallback from the structured summary to the templated one.  The backend  *)
(* is available, the transcript has an excerpt, and the reply of the        *)
(* backend is drawn from texts of every shape _extract_json_object tells    *)
(* apart.                                                                   *)

Word == Tok("word")

Key(k) == Str(<<k>>)

Fence == <<Tok("tick"), Tok("tick"), Tok("tick")>>

GoodSummary == Str(<<" ", "Refactored", " ", "a.py.", " ">>)

\* {"summary": " Refactored a.py. ", "decisions": [" Keep  tmp", 7, "Keep tmp"]}
GoodObject ==
    <<Tok("{"), Key("summary"), Tok(":"), GoodSummary, Tok(","),
      Key("decisions"), Tok(":"), Tok("["), Str(<<" ", "Keep", " ", " ", "tmp">>), Tok(","),
      Tok("num"), Tok(","), Str(<<"Keep", " ", "tmp">>), Tok("]"), Tok("}")>>

ShortObject == <<Tok("{"), Key("summary"), Tok(":"), GoodSummary, Tok("}")>>

\* Replies that hold one JSON object with a summary: bare, fenced with and
\* without a language tag, and inside prose.
UsableReplies ==
    {GoodObject,
     Fence \o <<Word, Ws>> \o GoodObject \o <<Ws>> \o Fence,
     <<Ws>> \o Fence \o ShortObject \o Fence,
     <<Word, Ws, Word, Tok(":"), Ws>> \o ShortObject \o <<Ws, Word>>}

\* Replies that are not a JSON object: prose, whitespace, an array, a cut-off
\* object, two objects, an object after prose that has a brace in it.
UnparsableReplies ==
    {<<Word, Ws, Word, Ws, Word>>,
     <<Ws, Ws>>,
     <<Tok("["), GoodSummary, Tok("]")>>,
     <<Tok("{"), Key("summary"), Tok(":"), GoodSummary>>,
     ShortObject \o <<Ws>> \o ShortObject,
     <<Word, Tok("{"), Word, Tok("}"), Ws>> \o ShortObject}

\* Objects without a summary, with an empty one, with a number for one, and {}.
SummarylessReplies ==
    {<<Tok("{"), Key("decisions"), Tok(":"), Tok("["), Str(<<"Keep", " ", "tmp">>), Tok("]"), Tok("}")>>,
     <<Tok("{"), Key("summary"), Tok(":"), Str(<<>>), Tok("}")>>,
     Fence \o <<Tok("{"), Key("summary"), Tok(":"), Tok("num"), Tok(","),
                Key("next_actions"), Tok(":"), Tok("["), Str(<<"Ship">>), Tok("]"), Tok("}")>> \o Fence,
     <<Tok("{"), Tok("}")>>}

\* An object whose summary is whitespace only.
BlankSummaryReply == <<Tok("{"), Key("summary"), Tok(":"), Str(<<" ", " ">>), Tok("}")>>

UnusableReplies == UnparsableReplies \cup SummarylessReplies

Replies == UsableReplies \cup UnusableReplies \cup {BlankSummaryReply, <<>>}

SummaryEnvs ==
    [forced : {""}, available : {{"anthropic"}}, enabled : {TRUE}, excerpt : {TRUE}, reply : Replies]
    \cup [forced : {""}, available : {{"anthropic"}}, enabled : BOOLEAN, excerpt : BOOLEAN,
          reply : {GoodObject}]
    \cup [forced : {""}, available : {{}}, enabled : {TRUE}, excerpt : {TRUE}, reply : {GoodObject}]

InitSummary ==
    /\ cfg \in {c \in Configs : ~c.api_key /\ c.rollup_on_session_end}
    /\ env \in SummaryEnvs
    /\ steps = MaxSteps \div 2
    /\ now = TickStep * (1 + MaxSteps \div 2)
    /\ stateFile = NoFile /\ log = <<>> /\ last = "none" /\ hist = NoHist
    /\ decision = NoDecision /\ IdleProcs /\ tmpFile = NoFile /\ remote = "none"

SpecSummary == InitSummary /\ [][Next]_vars

\* The backend is asked: summaries are enabled, a backend is available and the
\* transcript of the session has an excerpt.
BackendAsked ==
    /\ env.enabled /\ env.excerpt
    /\ SelectLlmProvider(env) # NoProvider

TemplatedRow(row, events_since, templates) ==
    /\ row.payload.summary.template \in templates
    /\ row.payload.summary.events = events_since
    /\ row.payload.summary.files = Take(row.payload.files_touched, FilesInSummary)
    /\ row.payload.decisions = <<>>
    /\ row.payload.open_questions = <<>>
    /\ row.payload.next_actions = <<>>
    /\ row.payload.llm_summary_provider = NoProvider

\* C18 as stated: when the reply of the backend cannot be parsed as a JSON
\* object or has no non-empty string summary, the checkpoint built uses the
\* templated sentence with the events_since_checkpoint count and the first 5
\* touched files, with empty decisions, open questions and next actions, and
\* the invocation completes.
CexC18_FallbackSentenceHasEventCount ==
    [][\A mode \in Modes :
          (HookStep(mode) /\ BackendAsked /\ env.reply \in UnusableReplies) =>
              /\ stateFile'.kind = "object"
              /\ \A i \in NewRows :
                    log'[i].event = "auto_checkpoint" =>
                        TemplatedRow(log'[i], Decided(mode).events_since_checkpoint,
                                     {"after_events"})]_vars

\* C18 amended: the templated sentence has the events_since_checkpoint count
\* when that count is positive and names the triggering hook event instead
\* when it is zero; in both forms it lists the first 5 touched files.
ThmC18_UnusableReplyFallsBackToTemplate ==
    [][\A mode \in Modes :
          (HookStep(mode) /\ BackendAsked /\ env.reply \in UnusableReplies) =>
              /\ stateFile'.kind = "object"
              /\ \A i \in NewRows :
                    log'[i].event = "auto_checkpoint" =>
                        TemplatedRow(log'[i], Decided(mode).events_since_checkpoint,
                                     IF Decided(mode).events_since_checkpoint > 0
                                     THEN {"after_events"} ELSE {"triggered_by"})]_vars

\* A checkpoint for pending events on files was built from the template after
\* the backend answered with an unusable reply to a session with a transcript.
WitC18_TemplateAfterUnusableReply ==
    /\ BackendAsked
    /\ env.reply \in UnusableReplies
    /\ stateFile.kind = "object" /\ stateFile.data.transcript_path # ""
    /\ log # <<>>
    /\ log[Len(log)].event = "auto_checkpoint"
    /\ log[Len(log)].payload.summary.template = "after_events"
    /\ log[Len(log)].payload.summary.files # <<>>

\* With a usable reply the checkpoint carries the backend's summary, stripped.
UsableReplyIsUsed ==
    (BackendAsked /\ env.reply \in UsableReplies) =>
        \A i \in 1..Len(log) :
            log[i].event = "auto_checkpoint" =>
                /\ log[i].payload.summary.template = "structured"
                /\ log[i].payload.summary.text = <<"Refactored", " ", "a.py.">>

-----------------------------------------------------------------------------
(* Provider selection as a function of the environment: every spelling of   *)
(* REMEM_MEMORY_SUMMARY_PROVIDER the normalisation tells apart, with every  *)
(* combination of available backends.                                       *)

ForcedSpellings ==
    {"", "  ", "claude", "claude-cli", "claude_cli", "Claude", "codex", "codex-cli", "codex_cli",
     "anthropic", "openai", " OpenAI ", "gemini"}

Backends == {Candidates[i] : i \in 1..Len(Candidates)}

ProviderEnvs ==
    [forced : ForcedSpellings, available : SUBSET Backends, enabled : {TRUE}, excerpt : {FALSE},
     reply : {<<>>}]

InitProvider ==
    /\ cfg \in {c \in Configs : c.min_events = 1 /\ ~c.api_key /\ c.rollup_on_session_end}
    /\ env \in ProviderEnvs
    /\ now = 0 /\ steps = 0
    /\ stateFile = NoFile /\ log = <<>> /\ last = "none" /\ hist = NoHist
    /\ decision = NoDecision /\ IdleProcs /\ tmpFile = NoFile /\ remote = "none"

\* One call of _select_llm_provider; last holds what it returned.
SelectProvider ==
    /\ ~decision.called
    /\ last' = SelectLlmProvider(env)
    /\ decision' = [called |-> TRUE, result |-> SelectLlmProvider(env) # NoProvider]
    /\ UNCHANGED <<cfg, now, steps, stateFile, log, hist, fcntl, holders, pc, inv, loc, env, tmpFile, remote>>

NextProvider == SelectProvider

SpecProvider == InitProvider /\ [][NextProvider]_vars

\* C19: with no forced provider configured, the selector returns the first
\* available backend in the order claude_cli, codex_cli, anthropic, openai,
\* for every combination of available backends, and none exactly when no
\* backend is available.
ThmC19_FirstAvailableInOrder ==
    (decision.called /\ env.forced = "") =>
        /\ last = (IF "claude_cli" \in env.available THEN "claude_cli"
                   ELSE IF "codex_cli" \in env.available THEN "codex_cli"
                   ELSE IF "anthropic" \in env.available THEN "anthropic"
                   ELSE IF "openai" \in env.available THEN "openai"
                   ELSE NoProvider)
        /\ (last = NoProvider <=> env.available = {})

\* Nothing forced, the first and the third candidate missing: the second is
\* chosen although the fourth is available too.
WitC19_SecondCandidateChosen ==
    /\ decision.called
    /\ env.forced = ""
    /\ env.available = {"codex_cli", "openai"}
    /\ last = "codex_cli"

\* C20: when the forced value names a provider and that provider is
\* unavailable, the selector returns none, whatever else is available.
ThmC20_ForcedUnavailableYieldsNone ==
    (/\ decision.called
     /\ NormalizeProvider(env.forced) # NoProvider
     /\ NormalizeProvider(env.forced) \notin env.available) => last = NoProvider

\* openai is forced and missing while every other backend is available.
WitC20_ForcedMissingOthersAvailable ==
    /\ decision.called
    /\ env.forced = " OpenAI "
    /\ env.available = Backends \ {"openai"}
    /\ last = NoProvider

\* A forced provider that is available is chosen ahead of the order.
ForcedAvailableIsChosen ==
    (/\ decision.called
     /\ NormalizeProvider(env.forced) # NoProvider
     /\ NormalizeProvider(env.forced) \in env.available) => last = NormalizeProvider(env.forced)

\* A value that names no provider is treated as unset.
UnknownForcedAutoDetects ==
    (decision.called /\ env.forced \in {"  ", "gemini"}) =>
        last = FirstAvailableFrom(env, 1)

-----------------------------------------------------------------------------
(* Rollup over an audit log that already holds records: checkpoints of the  *)
(* session with overlapping, padded and empty list items, a checkpoint of   *)
(* another session, one of another project, and a rollup the session wrote  *)
(* at an earlier session_end.                                               *)

MaxPriorRecords == 3

OtherProject == "other"

UseFlock == <<"Use", " ", "flock">>

KeepTmp == <<"Keep", " ", "tmp">>

DropCache == <<"Drop", " ", "cache">>

Padded(text) == <<" ">> \o text \o <<" ">>

\* What a generator returned for an earlier checkpoint.
PriorSummary(decisions, open_questions, next_actions) ==
    [made |-> TRUE, summary |-> <<"Did", " ", "it.">>, decisions |-> decisions,
     open_questions |-> open_questions, next_actions |-> next_actions, provider |-> "anthropic"]

PriorCheckpoint(project, session_id, files, structured) ==
    [event |-> "auto_checkpoint",
     payload |-> CheckpointPayload([project |-> project, session_id |-> session_id],
                                   "milestone", "TaskCompleted", files, 1, structured, 0),
     response |-> "null"]

PriorRollup ==
    [event |-> "auto_rollup",
     payload |-> RollupPayload([project |-> Project, session_id |-> ActiveSession], 1,
                               <<"a.py">>, <<DropCache>>, <<>>, <<UseFlock>>, NoSummary, 0),
     response |-> "null"]

PriorRows ==
    {PriorCheckpoint(Project, ActiveSession, <<"a.py", "b.py">>,
                     PriorSummary(<<UseFlock, KeepTmp>>, <<DropCache>>, <<>>)),
     PriorCheckpoint(Project, ActiveSession, <<"b.py", "a.py">>,
                     PriorSummary(<<KeepTmp, Padded(UseFlock), <<" ">>, DropCache>>,
                                  <<DropCache, UseFlock>>, <<KeepTmp, KeepTmp>>)),
     PriorCheckpoint(Project, OtherSession, <<"b.py">>,
                     PriorSummary(<<DropCache>>, <<KeepTmp>>, <<UseFlock>>)),
     PriorCheckpoint(OtherProject, ActiveSession, <<"b.py">>,
                     PriorSummary(<<DropCache>>, <<KeepTmp>>, <<UseFlock>>)),
     PriorRollup}

PriorLogs == UNION {[1..n -> PriorRows] : n \in 0..MaxPriorRecords}

\* No backend; a backend whose reply has a summary and decisions, one whose
\* reply has a summary only, one whose reply is prose.
RollupEnvs ==
    {NoBackendEnv}
    \cup [forced : {""}, available : {{"anthropic"}}, enabled : {TRUE}, excerpt : {FALSE},
          reply : {GoodObject, ShortObject, <<Word, Ws, Word>>}]

InitRollup ==
    /\ cfg \in {c \in Configs : c.min_events = 1 /\ ~c.api_key /\ c.rollup_on_session_end}
    /\ env \in RollupEnvs
    /\ log \in PriorLogs
    /\ steps = MaxSteps - 2
    /\ now = TickStep * (MaxSteps - 1)
    /\ stateFile = NoFile /\ last = "none" /\ hist = NoHist
    /\ decision = NoDecision /\ IdleProcs /\ tmpFile = NoFile /\ remote = "none"

SpecRollup == InitRollup /\ [][Next]_vars

\* This step appended a rollup record.
RollupBuilt ==
    /\ HookStep("session_end")
    /\ Len(log') > Len(log)
    /\ log'[Len(log')].event = "auto_rollup"

TheRollup == log'[Len(log')].payload

\* The records the rollup was built from: those of the pair that precede it.
RollupInputs ==
    LoadCheckpointRows(SubSeq(log', 1, Len(log') - 1), cfg.project, cfg.session_id)

OnceEachInFirstSeenOrder(list, items) ==
    /\ \A i, j \in 1..Len(list) : i # j => list[i] # list[j]
    /\ Range(list) = Range(items)
    /\ \A i, j \in 1..Len(list) : i < j => FirstIndex(items, list[i]) < FirstIndex(items, list[j])

\* The list items of the records as they stand in the log.
Found(records, Field(_)) == Flatten([i \in 1..Len(records) |-> Field(records[i])])

RowFiles(row) == row.payload.files_touched

\* C21 as stated: each of the four lists of a rollup holds every distinct
\* string found in the records exactly once, in the order of first occurrence
\* across the records in log order.
CexC21_RollupListsAreDistinctStringsFound ==
    [][RollupBuilt =>
          /\ OnceEachInFirstSeenOrder(TheRollup.decisions, Found(RollupInputs, RowDecisions))
          /\ OnceEachInFirstSeenOrder(TheRollup.open_questions, Found(RollupInputs, RowOpenQuestions))
          /\ OnceEachInFirstSeenOrder(TheRollup.next_actions, Found(RollupInputs, RowNextActions))
          /\ OnceEachInFirstSeenOrder(TheRollup.content_files, Found(RollupInputs, RowFiles))]_vars

\* C21 amended: strings are compared after trimming and empty ones are
\* dropped; the files list always holds each of them once in first-seen
\* order, and so does each of the other three lists unless the backend
\* returned a structured rollup summary with a non-empty list of that kind,
\* which then replaces the collected one.
ThmC21_RollupListsDedupedInFirstSeenOrder ==
    [][RollupBuilt =>
          /\ OnceEachInFirstSeenOrder(TheRollup.content_files, Found(RollupInputs, RowFiles))
          /\ TheRollup.llm_summary_provider = NoProvider =>
                /\ OnceEachInFirstSeenOrder(TheRollup.decisions,
                                            Collected(RollupInputs, RowDecisions))
                /\ OnceEachInFirstSeenOrder(TheRollup.open_questions,
                                            Collected(RollupInputs, RowOpenQuestions))
                /\ OnceEachInFirstSeenOrder(TheRollup.next_actions,
                                            Collected(RollupInputs, RowNextActions))]_vars

\* A rollup built without a backend from three records of the session whose
\* decisions overlap: three decisions, although the records hold more items.
WitC21_OverlappingDecisionsMerged ==
    /\ last = "session_end"
    /\ env = NoBackendEnv
    /\ log # <<>>
    /\ log[Len(log)].event = "auto_rollup"
    /\ log[Len(log)].payload.summarized >= 3
    /\ log[Len(log)].payload.decisions = <<UseFlock, KeepTmp, DropCache>>
    /\ Len(Found(LoadCheckpointRows(SubSeq(log, 1, Len(log) - 1), cfg.project, cfg.session_id),
                 RowDecisions)) > 3

\* With a structured rollup summary the lists of the rollup are the backend's
\* where it gave any, and the collected ones where it gave none.
StructuredRollupListsPreferred ==
    [][(RollupBuilt /\ TheRollup.llm_summary_provider # NoProvider) =>
          /\ TheRollup.summary.template = "structured"
          /\ TheRollup.decisions =
                (IF env.reply = GoodObject THEN <<KeepTmp>>
                 ELSE DedupeText(Collected(RollupInputs, RowDecisions)))]_vars

-----------------------------------------------------------------------------
(* Round trip of a structured summary through a checkpoint document: the    *)
(* document is built from the summary and its metadata is read back the way *)
(* _build_rollup_payload reads the records of the audit log.                *)

MaxSummaryItems == 2

ListsOver(texts) == UNION {[1..n -> texts] : n \in 0..MaxSummaryItems}

\* Summaries as the generators return them: a stripped, non-empty summary and
\* lists of stripped, non-empty items; items may repeat.
StructuredSummaries ==
    [made : {TRUE},
     summary : {<<"Did", " ", "it.">>, <<"Refactored", " ", "a.py.">>},
     decisions : ListsOver({UseFlock, KeepTmp, DropCache}),
     open_questions : ListsOver({UseFlock, KeepTmp}),
     next_actions : ListsOver({KeepTmp, DropCache}),
     provider : {"anthropic"}]

NoReadBack == [summary |-> <<>>, decisions |-> <<>>, open_questions |-> <<>>, next_actions |-> <<>>]

\* metadata.summary, stripped; the model keeps the text of a structured
\* summary apart from the templated sentence.
RowSummary(row) ==
    IF row.payload.summary.template = "structured" THEN Strip(row.payload.summary.text, {" "})
    ELSE <<>>

\* Lines 998-1032 on one record.
ReadBack(row) ==
    [summary |-> RowSummary(row),
     decisions |-> DedupeText(Collected(<<row>>, RowDecisions)),
     open_questions |-> DedupeText(Collected(<<row>>, RowOpenQuestions)),
     next_actions |-> DedupeText(Collected(<<row>>, RowNextActions))]

InitRoundTrip ==
    /\ cfg \in {c \in Configs : c.min_events = 1 /\ ~c.api_key /\ c.rollup_on_session_end}
    /\ hist \in [ok : {FALSE}, structured : StructuredSummaries, read : {NoReadBack}]
    /\ now = TickStep /\ steps = 0
    /\ stateFile = NoFile /\ log = <<>> /\ last = "none"
    /\ decision = NoDecision /\ IdleProcs /\ Undisturbed

\* Build the document from the summary, log it, read it back.
BuildAndReadBack ==
    /\ ~hist.ok
    /\ log' = AppendNdjson(log,
                [event |-> "auto_checkpoint",
                 payload |-> CheckpointPayload(cfg, "interval", "PostToolUse", <<"a.py">>, 1,
                                               hist.structured, now),
                 response |-> "null"])
    /\ hist' = [hist EXCEPT !.ok = TRUE, !.read = ReadBack(log'[1])]
    /\ last' = "round_trip"
    /\ UNCHANGED <<cfg, now, steps, stateFile, decision, fcntl, holders, pc, inv, loc, env, tmpFile, remote>>

NextRoundTrip == BuildAndReadBack

SpecRoundTrip == InitRoundTrip /\ [][NextRoundTrip]_vars

\* C22: reading summary, decisions, open questions and next actions back
\* from the metadata of a checkpoint document built from a structured
\* summary S yields S's summary, and S's three lists with the order kept and
\* the duplicates removed.
ThmC22_SummaryRoundTrip ==
    hist.ok =>
        /\ hist.read.summary = hist.structured.summary
        /\ OnceEachInFirstSeenOrder(hist.read.decisions, hist.structured.decisions)
        /\ OnceEachInFirstSeenOrder(hist.read.open_questions, hist.structured.open_questions)
        /\ OnceEachInFirstSeenOrder(hist.read.next_actions, hist.structured.next_actions)

\* A summary whose decisions repeat an item and whose other lists differ
\* from them went through the document.
WitC22_RepeatedDecisionRoundTrip ==
    /\ hist.ok
    /\ hist.structured.decisions = <<KeepTmp, KeepTmp>>
    /\ hist.read.decisions = <<KeepTmp>>
    /\ hist.structured.open_questions = <<UseFlock>>
    /\ hist.read.open_questions = <<UseFlock>>
    /\ hist.read.next_actions = <<DropCache, KeepTmp>>
    /\ log[1].payload.summary.text = hist.structured.summary

-----------------------------------------------------------------------------
(* Which records a rollup summarizes (SpecRollup).                          *)

\* The checkpoint documents recorded before the rollup for the active pair.
CheckpointsOfPair ==
    SelectSeq(SubSeq(log', 1, Len(log') - 1),
              LAMBDA row : /\ row.event = "auto_checkpoint"
                           /\ row.payload.project = cfg.project
                           /\ row.payload.session_id = cfg.session_id)

\* The records of the active pair before the rollup, of either event.
RecordsOfPair ==
    SelectSeq(SubSeq(log', 1, Len(log') - 1),
              LAMBDA row : /\ row.payload.project = cfg.project
                           /\ row.payload.session_id = cfg.session_id)

\* C23 as stated: the count of a rollup is the number of checkpoint
\* documents recorded for the active (project, session_id) pair; a rollup
\* record of an earlier session_end is not counted.
CexC23_RollupCountsCheckpointsOfPair ==
    [][RollupBuilt => TheRollup.summarized = Len(CheckpointsOfPair)]_vars

\* What the code does: every record carrying the pair's project and
\* session_id is counted, earlier rollup records included; records of other
\* projects and sessions are not.
RollupCountsRecordsOfPair ==
    [][RollupBuilt => TheRollup.summarized = Len(RecordsOfPair)]_vars

-----------------------------------------------------------------------------
(* Source identifiers.  Strings are sequences of characters here, so that   *)
(* slugging, punctuation stripping and the length caps act as in the code.  *)

SlugCap == 120

SourceIdCap == 200

MaxStamp == 1

Rep(c, n) == [i \in 1..n |-> c]

UpperLetters == <<"A", "B", "C", "D", "E", "F", "G", "H", "I", "J", "K", "L", "M", "N", "O", "P", "Q", "R", "S", "T", "U", "V", "W", "X", "Y", "Z">>

LowerLetters == <<"a", "b", "c", "d", "e", "f", "g", "h", "i", "j", "k", "l", "m", "n", "o", "p", "q", "r", "s", "t", "u", "v", "w", "x", "y", "z">>

LowerMap == [c \in Range(UpperLetters) |-> LowerLetters[CHOOSE i \in 1..26 : UpperLetters[i] = c]]

\* str.lower() on one character.
LowerChar(c) == IF c \in DOMAIN LowerMap THEN LowerMap[c] ELSE c

AlnumChars ==
    Range(UpperLetters) \cup Range(LowerLetters) \cup {"0", "1", "2", "3", "4", "5", "6", "7", "8", "9"}

\* str.isalnum() on one character.
IsAlnum(c) == c \in AlnumChars

\* cleaned, line 77.
SlugCleaned(value) ==
    LET stripped == Strip(value, {" "})
    IN  [i \in 1..Len(stripped) |->
            LET c == LowerChar(stripped[i])
            IN  IF IsAlnum(c) \/ c \in {".", "_", "-"} THEN c ELSE "-"]

\* "-".join(part for part in cleaned.split("-") if part), line 78: runs of
\* dashes become one dash, dashes at either end go.
\* Runs of c become one c, and c at either end goes.
Squeeze(text, c) ==
    LET kept == SelectSeq([i \in 1..Len(text) |-> i],
                          LAMBDA i : text[i] # c \/ (i > 1 /\ text[i - 1] # c))
    IN  Strip([n \in 1..Len(kept) |-> text[kept[n]]], {c})

SlugCollapsed(cleaned) == Squeeze(cleaned, "-")

Prefix(text, n) == SubSeq(text, 1, IF Len(text) < n THEN Len(text) ELSE n)

Unknown == <<"u", "n", "k", "n", "o", "w", "n">>

Slug(value) ==
    LET cut == Prefix(SlugCollapsed(SlugCleaned(value)), SlugCap)
    IN  IF cut = <<>> THEN Unknown ELSE cut

\* .replace(":", "").replace("-", "")
Unpunctuated(text) == SelectSeq(text, LAMBDA c : c \notin {":", "-"})

AutoCheckpoint == <<"a", "u", "t", "o", "-", "c", "h", "e", "c", "k", "p", "o", "i", "n", "t">>

AutoRollup == <<"a", "u", "t", "o", "-", "r", "o", "l", "l", "u", "p">>

KindText(kind) ==
    IF kind = "interval" THEN <<"i", "n", "t", "e", "r", "v", "a", "l">>
    ELSE <<"m", "i", "l", "e", "s", "t", "o", "n", "e">>

Digit(n) == <<"0", "1", "2", "3", "4", "5", "6", "7", "8", "9">>[n + 1]

\* datetime.isoformat() of a UTC time t seconds into the minute.
IsoFormat(t) == <<"2", "0", "2", "6", "-", "1", "1", "-", "0", "1", "T", "0", "0", ":", "0", "0", ":", "0">> \o <<Digit(t)>> \o <<"+", "0", "0", ":", "0", "0">>

\* Lines 925-926.
CheckpointSourceId(project, session_id, kind, t) ==
    Prefix(Unpunctuated(AutoCheckpoint \o <<":">> \o Slug(project) \o <<":">> \o Slug(session_id)
                        \o <<":">> \o KindText(kind) \o <<":">> \o IsoFormat(t)),
           SourceIdCap)

\* Lines 1073-1074.
RollupSourceId(project, session_id, t) ==
    Prefix(Unpunctuated(AutoRollup \o <<":">> \o Slug(project) \o <<":">> \o Slug(session_id)
                        \o <<":">> \o IsoFormat(t)),
           SourceIdCap)

\* The identifier of the document built for a (project, session, kind,
\* timestamp) tuple; kind "final" is the rollup.
SourceIdOf(tuple) ==
    IF tuple.kind = "final" THEN RollupSourceId(tuple.project, tuple.session_id, tuple.t)
    ELSE CheckpointSourceId(tuple.project, tuple.session_id, tuple.kind, tuple.t)

ProjectNames == {<<"a", "b">>, <<"a", "-", "b">>, <<"A", " ", "b">>, <<"a">>, Rep("x", SlugCap)}

SessionNames == {<<"c">>, <<"b", "c">>, Rep("y", SlugCap), Rep("y", SlugCap + 5)}

Tuples == [project : ProjectNames, session_id : SessionNames,
           kind : {"interval", "milestone", "final"}, t : 0..MaxStamp]

InitSourceId ==
    /\ cfg \in {c \in Configs : c.min_events = 1 /\ ~c.api_key /\ c.rollup_on_session_end}
    /\ hist \in [ok : {FALSE}, first : Tuples, second : Tuples, ids : {<<>>}]
    /\ now = TickStep /\ steps = 0
    /\ stateFile = NoFile /\ log = <<>> /\ last = "none"
    /\ decision = NoDecision /\ IdleProcs /\ Undisturbed

\* Two documents are built, one per tuple.
BuildTwo ==
    /\ ~hist.ok
    /\ hist' = [hist EXCEPT !.ok = TRUE, !.ids = <<SourceIdOf(hist.first), SourceIdOf(hist.second)>>]
    /\ last' = "build_two"
    /\ UNCHANGED <<cfg, now, steps, stateFile, log, decision, fcntl, holders, pc, inv, loc, env, tmpFile, remote>>

NextSourceId == BuildTwo

SpecSourceId == InitSourceId /\ [][NextSourceId]_vars

\* C24 as stated: two builds whose (project, session, kind, timestamp)
\* tuples differ get different source identifiers, and two builds with the
\* same tuple get the same one.
CexC24_SourceIdUniquePerTuple ==
    hist.ok => ((hist.first = hist.second) <=> (hist.ids[1] = hist.ids[2]))

\* What holds: tuples whose project slugs and session slugs are equal and
\* leave room under the cap get different identifiers when they differ in
\* kind or timestamp.
SourceIdTellsKindAndTimeApart ==
    (/\ hist.ok
     /\ Slug(hist.first.project) = Slug(hist.second.project)
     /\ Slug(hist.first.session_id) = Slug(hist.second.session_id)
     /\ Len(Slug(hist.first.project)) + Len(Slug(hist.first.session_id)) <= SlugCap
     /\ <<hist.first.kind, hist.first.t>> # <<hist.second.kind, hist.second.t>>)
        => hist.ids[1] # hist.ids[2]

-----------------------------------------------------------------------------
(* Transcript Excerptor.  Texts are sequences of characters.                *)

MinChars == 500

MinCodexMessages == 10

ToolSnippetCap == 180

Whitespace == {" ", "\n"}

\* pat in text.lower(), for a lower-case pat.
ContainsLowered(text, pat) ==
    \E i \in 1..(Len(text) - Len(pat) + 1) :
        /\ LowerChar(text[i]) = pat[1]
        /\ \A j \in 2..Len(pat) : LowerChar(text[i + j - 1]) = pat[j]

\* text.find(pat) + 1: the first position of pat in text, 0 when absent.
FindText(text, pat) ==
    LET at == {i \in 1..(Len(text) - Len(pat) + 1) :
                  text[i] = pat[1] /\ SubSeq(text, i, i + Len(pat) - 1) = pat}
    IN  IF at = {} THEN 0 ELSE CHOOSE i \in at : \A j \in at : i <= j

\* " ".join(text.strip().split())
CompactSpaces(text) ==
    Squeeze([i \in 1..Len(text) |-> IF text[i] \in Whitespace THEN " " ELSE text[i]], " ")

RECURSIVE JoinText(_, _)
JoinText(parts, sep) ==
    IF parts = <<>> THEN <<>>
    ELSE IF Len(parts) = 1 THEN parts[1]
    ELSE parts[1] \o sep \o JoinText(Tail(parts), sep)

NonEmpty(parts) == SelectSeq(parts, LAMBDA p : p # <<>>)

\* _extract_text_from_content, lines 335-351.
ExtractTextFromContent(content) ==
    IF content.kind = "str" THEN Strip(content.text, Whitespace)
    ELSE IF content.kind = "list"
    THEN LET texts == SelectSeq(content.items, LAMBDA item : item.type = "text")
         IN  Strip(JoinText(NonEmpty([i \in 1..Len(texts) |-> Strip(texts[i].text, Whitespace)]),
                            <<"\n">>),
                   Whitespace)
    ELSE <<>>

BashName == <<"B", "a", "s", "h">>

Ellipsis == <<".", ".", ".">>

\* The one-liner of one tool_use item, lines 361-376; empty when the item
\* has no name.
ToolSnippet(item) ==
    IF Strip(item.name, Whitespace) = <<>> THEN <<>>
    ELSE IF item.name = BashName
    THEN IF Strip(item.command, Whitespace) = <<>> THEN Strip(item.name, Whitespace)
         ELSE LET cmd == CompactSpaces(item.command)
              IN  BashName \o <<" ">> \o Prefix(cmd, ToolSnippetCap)
                      \o (IF Len(cmd) > ToolSnippetCap THEN Ellipsis ELSE <<>>)
    ELSE IF Strip(item.file_path, Whitespace) = <<>> THEN Strip(item.name, Whitespace)
         ELSE item.name \o <<" ">> \o Strip(item.file_path, Whitespace)

\* _summarize_tool_use_items, lines 354-377.
SummarizeToolUseItems(items) ==
    LET uses == SelectSeq(items, LAMBDA item : item.type = "tool_use")
    IN  NonEmpty([i \in 1..Len(uses) |-> ToolSnippet(uses[i])])

ToolTag == <<"[", "t", "o", "o", "l", "]", " ">>

CarriesToolResult(content) ==
    content.kind = "list" /\ \E i \in 1..Len(content.items) : content.items[i].type = "tool_result"

\* A row's text taken as it stands, tool results or not.
TextKeepingToolResults(content) == ExtractTextFromContent(content)

\* Lines 442-447: the text of the content, dropped when the content carries
\* a tool_result item.
TextWithoutToolResults(content) ==
    IF CarriesToolResult(content) THEN <<>> ELSE ExtractTextFromContent(content)

\* Lines 449-457: tool calls of an assistant row are added to its text.
WithToolCalls(row, text) ==
    IF row.type = "assistant" /\ row.content.kind = "list"
    THEN LET tool_summaries == SummarizeToolUseItems(row.content.items)
             tagged == [i \in 1..Len(tool_summaries) |-> ToolTag \o tool_summaries[i]]
         IN  IF text = <<>>
             THEN IF tool_summaries = <<>> THEN <<>>
                  ELSE Strip(JoinText(Prefix(tagged, 3), <<"\n">>), Whitespace)
             ELSE IF tool_summaries = <<>> THEN text
                  ELSE Strip(text \o <<"\n">> \o tagged[1], Whitespace)
    ELSE text

CaveatTag == <<"<", "l", "o", "c", "a", "l", "-", "c", "o", "m", "m", "a", "n", "d", "-", "c", "a", "v", "e", "a", "t", ">">>

StdoutTag == <<"<", "l", "o", "c", "a", "l", "-", "c", "o", "m", "m", "a", "n", "d", "-", "s", "t", "d", "o", "u", "t", ">">>

UserPrefix == <<"U", "s", "e", "r", ":", " ">>

AssistantPrefix == <<"A", "s", "s", "i", "s", "t", "a", "n", "t", ":", " ">>

\* The turn one line of the transcript gives, empty when the line is
\* skipped (lines 421-467).  A line that is blank, not JSON or not an object
\* is a row of type "junk".
TurnOf(row) ==
    IF row.type \notin {"user", "assistant"} \/ row.role # row.type THEN <<>>
    ELSE LET text == WithToolCalls(row, TextWithoutToolResults(row.content))
         IN  IF text = <<>> THEN <<>>
             ELSE IF ContainsLowered(text, CaveatTag) \/ ContainsLowered(text, StdoutTag) THEN <<>>
             ELSE (IF row.type = "user" THEN UserPrefix ELSE AssistantPrefix) \o text

\* _int_env, lines 89-96, on a parsed integer.
IntEnv(value) == IF value < 1 THEN 1 ELSE value

\* The two windows put together as they are.
CombinedWithOverlap(lines, head_lines, tail_lines) ==
    IF Len(lines) <= head_lines THEN Prefix(lines, head_lines)
    ELSE Prefix(lines, head_lines) \o LastN(lines, tail_lines)

\* Lines 395-418: the head window and the tail window, without the overlap.
Combined(lines, head_lines, tail_lines) ==
    LET total_lines == Len(lines)
        head == Prefix(lines, head_lines)
        tail_list == LastN(lines, tail_lines)
    IN  IF tail_list = <<>> \/ total_lines <= head_lines THEN head
        ELSE LET tail_start_idx == IF total_lines - tail_lines < 0 THEN 0 ELSE total_lines - tail_lines
                 overlap == IF head_lines - tail_start_idx < 0 THEN 0 ELSE head_lines - tail_start_idx
             IN  head \o SubSeq(tail_list, overlap + 1, Len(tail_list))

\* The turns of the lines read, in order (lines 420-467).
TurnsOf(lines) == NonEmpty([i \in 1..Len(lines) |-> TurnOf(lines[i])])

\* turns[:limit], the oldest turns.
OldestTurns(turns, limit) == Prefix(turns, limit)

\* turns[-limit:], lines 469 and 294.
RecentTurns(turns, limit) == LastN(turns, limit)

\* The joined text returned whole, whatever its length.
NotCut(excerpt, max_chars) == Strip(excerpt, Whitespace)

\* Lines 471-476 and 295-300.
CutToBudget(excerpt, max_chars) ==
    IF Len(excerpt) > max_chars
    THEN LET kept == SubSeq(excerpt, Len(excerpt) - max_chars + 1, Len(excerpt))
             cut == FindText(kept, UserPrefix) - 1
         IN  Strip(IF cut > 0 THEN SubSeq(kept, cut + 1, Len(kept)) ELSE kept, Whitespace)
    ELSE Strip(excerpt, Whitespace)

Floor(value, least) == IF value < least THEN least ELSE value

\* The turns the excerpt is made of (lines 385-469).
TranscriptTurns(lines, budgets) ==
    RecentTurns(TurnsOf(Combined(lines, IntEnv(budgets.head_lines), IntEnv(budgets.tail_lines))),
                Floor(IntEnv(budgets.max_messages), 1))

\* _read_transcript_excerpt on a readable transcript.
ReadTranscriptExcerpt(lines, budgets) ==
    CutToBudget(Strip(JoinText(TranscriptTurns(lines, budgets), <<"\n", "\n">>), Whitespace),
                Floor(IntEnv(budgets.max_chars), MinChars))

-----------------------------------------------------------------------------
(* The event-stream excerptor of the codex wrapper.                         *)

\* _extract_codex_message_text, lines 197-213.
ExtractCodexMessageText(content, role) ==
    IF content.kind = "str" THEN Strip(content.text, Whitespace)
    ELSE IF content.kind # "list" THEN <<>>
    ELSE LET allowed == IF role = "user" THEN {"input_text", "text"} ELSE {"output_text", "text"}
             texts == SelectSeq(content.items, LAMBDA item : item.type \in allowed)
         IN  Strip(JoinText(NonEmpty([i \in 1..Len(texts) |-> Strip(texts[i].text, Whitespace)]),
                            <<"\n">>),
                   Whitespace)

AgentsHeader == <<"#", " ", "a", "g", "e", "n", "t", "s", ".", "m", "d", " ", "i", "n", "s", "t", "r", "u", "c", "t", "i", "o", "n", "s", " ", "f", "o", "r", " ">>

EnvironmentBanner == <<"<", "e", "n", "v", "i", "r", "o", "n", "m", "e", "n", "t", "_", "c", "o", "n", "t", "e", "x", "t", ">">>

PermissionsBanner == <<"<", "p", "e", "r", "m", "i", "s", "s", "i", "o", "n", "s", " ", "i", "n", "s", "t", "r", "u", "c", "t", "i", "o", "n", "s", ">">>

SuperpowersHeader == <<"#", "#", " ", "s", "u", "p", "e", "r", "p", "o", "w", "e", "r", "s", " ", "s", "y", "s", "t", "e", "m">>

\* _is_noise_user_text, lines 216-226.
IsNoiseUserText(text) ==
    \/ ContainsLowered(text, AgentsHeader)
    \/ ContainsLowered(text, EnvironmentBanner)
    \/ ContainsLowered(text, PermissionsBanner)
    \/ (ContainsLowered(text, SuperpowersHeader) /\ Len(text) > 400)

\* The turn one record gives, empty when it is skipped (lines 257-285).
CodexTurnOf(row) ==
    IF row.type # "response_item" THEN <<>>
    ELSE IF row.payload_type = "message"
    THEN IF row.role \notin {"user", "assistant"} THEN <<>>
         ELSE LET text == ExtractCodexMessageText(row.content, row.role)
              IN  IF text = <<>> THEN <<>>
                  ELSE IF row.role = "user" /\ IsNoiseUserText(text) THEN <<>>
                  ELSE (IF row.role = "user" THEN UserPrefix ELSE AssistantPrefix) \o text
    ELSE IF row.payload_type = "function_call"
    THEN IF Strip(row.name, Whitespace) = <<>> THEN <<>>
         ELSE IF Strip(row.arguments, Whitespace) = <<>> THEN ToolTag \o Strip(row.name, Whitespace)
         ELSE LET compact == CompactSpaces(row.arguments)
                  short == IF Len(compact) > ToolSnippetCap
                           THEN Prefix(compact, ToolSnippetCap - 3) \o Ellipsis ELSE compact
              IN  ToolTag \o Strip(row.name, Whitespace) \o <<" ">> \o short
    ELSE <<>>

\* The loop of lines 249-288: the turns kept while scanning.
RECURSIVE CodexScan(_, _, _, _)
CodexScan(rows, i, turns, message_limit) ==
    IF i > Len(rows) THEN turns
    ELSE LET turn == CodexTurnOf(rows[i])
             more == IF turn = <<>> THEN turns ELSE Append(turns, turn)
         IN  CodexScan(rows, i + 1,
                       IF Len(more) > message_limit * 3 THEN LastN(more, message_limit * 2) ELSE more,
                       message_limit)

\* The turns the excerpt is made of (lines 241-294).
CodexTranscriptTurns(rows, budgets) ==
    RecentTurns(CodexScan(rows, 1, <<>>, Floor(IntEnv(budgets.max_messages), MinCodexMessages)),
                Floor(IntEnv(budgets.max_messages), MinCodexMessages))

\* _read_codex_transcript_excerpt on a readable transcript, the budgets
\* taken from the environment as at its call site (line 431).
ReadCodexTranscriptExcerpt(rows, budgets) ==
    CutToBudget(Strip(JoinText(CodexTranscriptTurns(rows, budgets), <<"\n", "\n">>), Whitespace),
                Floor(IntEnv(budgets.max_chars), MinChars))

-----------------------------------------------------------------------------
(* The excerptors applied to transcripts (SpecExcerpt).                     *)

MaxRows == 3

DefaultHeadLines == 120

DefaultTailLines == 600

StrContent(text) == [kind |-> "str", text |-> text, items |-> <<>>]

ListContent(items) == [kind |-> "list", text |-> <<>>, items |-> items]

TextItem(type, text) == [type |-> type, text |-> text, name |-> <<>>, command |-> <<>>, file_path |-> <<>>]

ToolUse(name, command, file_path) ==
    [type |-> "tool_use", text |-> <<>>, name |-> name, command |-> command, file_path |-> file_path]

TRow(type, role, content) == [type |-> type, role |-> role, content |-> content]

Secret == <<"S", "E", "C", "R", "E", "T">>

Note == <<"n", "o", "t", "e">>

Hidden == <<"h", "i", "d", "d", "e", "n">>

EditA == ToolUse(<<"E", "d", "i", "t">>, <<>>, <<"a", ".", "p", "y">>)

BashLs == ToolUse(BashName, <<"l", "s", " ", " ", " ", "-", "l">>, <<>>)

UserFix == TRow("user", "user", StrContent(<<" ", "F", "i", "x", " ", "t", "h", "e", " ", "l", "o", "c", "k", " ">>))

UserLong == TRow("user", "user", StrContent(Rep("x", 480)))

AssistantDone == TRow("assistant", "assistant", ListContent(<<TextItem("text", <<"D", "o", "n", "e", ".">>), EditA>>))

AssistantTools == TRow("assistant", "assistant", ListContent(<<BashLs, EditA>>))

\* A user pseudo-message: a tool result next to a text item.
UserToolResult ==
    TRow("user", "user", ListContent(<<TextItem("tool_result", Secret), TextItem("text", Note)>>))

\* An assistant row that carries a tool result, a text and a tool call.
AssistantToolResult ==
    TRow("assistant", "assistant",
         ListContent(<<TextItem("tool_result", Secret), TextItem("text", Hidden), EditA>>))

UserCaveat == TRow("user", "user", StrContent(<<"<", "L", "o", "c", "a", "l", "-", "C", "o", "m", "m", "a", "n", "d", "-", "S", "t", "d", "o", "u", "t", ">", "o", "k">>))

JunkLine == TRow("junk", "", StrContent(<<>>))

RoleMismatch == TRow("user", "assistant", StrContent(<<"s", "t", "r", "a", "y">>))

TurnRows == {UserFix, UserLong, AssistantDone, AssistantTools, UserToolResult,
             AssistantToolResult, UserCaveat, JunkLine, RoleMismatch}

CRow(type, payload_type, role, content, name, arguments) ==
    [type |-> type, payload_type |-> payload_type, role |-> role, content |-> content,
     name |-> name, arguments |-> arguments]

CodexMessage(role, item_type, text) ==
    CRow("response_item", "message", role, ListContent(<<TextItem(item_type, text)>>), <<>>, <<>>)

CodexUser == CodexMessage("user", "input_text", <<"F", "i", "x", " ", "u", "p", "l", "o", "a", "d", " ", "r", "e", "t", "r", "y">>)

CodexUserLong == CodexMessage("user", "input_text", Rep("x", 480))

CodexNoise == CodexMessage("user", "input_text", <<"#", " ", "A", "G", "E", "N", "T", "S", ".", "m", "d", " ", "i", "n", "s", "t", "r", "u", "c", "t", "i", "o", "n", "s", " ", "f", "o", "r", " ", "/", "r", "e", "p", "o">>)

CodexAssistant == CodexMessage("assistant", "output_text", <<"I", "m", "p", "l", "e", "m", "e", "n", "t", "e", "d", " ", "r", "e", "t", "r", "y", " ", "c", "a", "p", ".">>)

CodexCall ==
    CRow("response_item", "function_call", "", StrContent(<<>>), <<"e", "x", "e", "c", "_", "c", "o", "m", "m", "a", "n", "d">>, <<"p", "y", "t", "e", "s", "t", " ", " ", "-", "q">>)

SessionMeta == CRow("session_meta", "", "", StrContent(<<>>), <<>>, <<>>)

CodexRows == {CodexUser, CodexUserLong, CodexNoise, CodexAssistant, CodexCall, SessionMeta}

\* A user message that carries its position in the transcript.
Numbered(i) == CodexMessage("user", "input_text", <<"q", Digit(i \div 10), Digit(i % 10)>>)

LongTranscripts ==
    {[i \in 1..n |-> Numbered(i)] : n \in {MinCodexMessages + 3, 3 * MinCodexMessages + 1}}

TranscriptsOver(rows) == UNION {[1..n -> rows] : n \in 0..MaxRows}

\* The default windows, and windows of one line each.
TurnBudgets ==
    [head_lines : {DefaultHeadLines}, tail_lines : {DefaultTailLines},
     max_messages : {1, 2}, max_chars : {100, 520}]
    \cup
    [head_lines : {1}, tail_lines : {1}, max_messages : {2}, max_chars : {520}]

CodexBudgets ==
    [head_lines : {DefaultHeadLines}, tail_lines : {DefaultTailLines},
     max_messages : {2, MinCodexMessages + 2}, max_chars : {100, 520}]

NotRead == [survivors |-> <<>>, selected |-> <<>>, excerpt |-> <<>>]

ExcerptInputs ==
    [ok : {FALSE}, shape : {"turns"}, lines : TranscriptsOver(TurnRows), budgets : TurnBudgets,
     read : {NotRead}]
    \cup
    [ok : {FALSE}, shape : {"events"}, lines : TranscriptsOver(CodexRows) \cup LongTranscripts,
     budgets : CodexBudgets, read : {NotRead}]

InitExcerpt ==
    /\ cfg \in {c \in Configs : c.min_events = 1 /\ ~c.api_key /\ c.rollup_on_session_end}
    /\ hist \in ExcerptInputs
    /\ now = TickStep /\ steps = 0
    /\ stateFile = NoFile /\ log = <<>> /\ last = "none"
    /\ decision = NoDecision /\ IdleProcs /\ Undisturbed

\* The turn-based excerptor reads a transcript.
ReadTurns ==
    /\ ~hist.ok /\ hist.shape = "turns"
    /\ hist' = [hist EXCEPT !.ok = TRUE,
                    !.read = [survivors |-> TurnsOf(Combined(hist.lines, hist.budgets.head_lines,
                                                             hist.budgets.tail_lines)),
                              selected |-> TranscriptTurns(hist.lines, hist.budgets),
                              excerpt |-> ReadTranscriptExcerpt(hist.lines, hist.budgets)]]
    /\ last' = "read_turns"
    /\ UNCHANGED <<cfg, now, steps, stateFile, log, decision, fcntl, holders, pc, inv, loc, env, tmpFile, remote>>

\* The event-stream excerptor reads a transcript.
ReadEvents ==
    /\ ~hist.ok /\ hist.shape = "events"
    /\ hist' = [hist EXCEPT !.ok = TRUE,
                    !.read = [survivors |-> NonEmpty([i \in 1..Len(hist.lines) |-> CodexTurnOf(hist.lines[i])]),
                              selected |-> CodexTranscriptTurns(hist.lines, hist.budgets),
                              excerpt |-> ReadCodexTranscriptExcerpt(hist.lines, hist.budgets)]]
    /\ last' = "read_events"
    /\ UNCHANGED <<cfg, now, steps, stateFile, log, decision, fcntl, holders, pc, inv, loc, env, tmpFile, remote>>

NextExcerpt == ReadTurns \/ ReadEvents

SpecExcerpt == InitExcerpt /\ [][NextExcerpt]_vars

\* C25 as stated: the excerpt is never longer than the configured max_chars.
CexC25_ExcerptWithinConfiguredChars ==
    hist.ok => Len(hist.read.excerpt) <= hist.budgets.max_chars

\* C25: the excerpt of either excerptor is never longer than the configured
\* max_chars budget raised to the floor of 500 characters.
ThmC25_ExcerptWithinEffectiveChars ==
    hist.ok => Len(hist.read.excerpt) <= (IF hist.budgets.max_chars < 500 THEN 500 ELSE hist.budgets.max_chars)

\* A turn-based transcript whose turns exceed a budget above the floor was
\* cut to exactly that budget.
WitC25_CutToBudget ==
    /\ hist.ok /\ hist.shape = "turns"
    /\ hist.budgets.max_chars = 520
    /\ Len(JoinText(hist.read.selected, <<"\n", "\n">>)) > 520
    /\ Len(hist.read.excerpt) = 520

\* The cut is moved to the start of a user turn when one starts inside the
\* characters kept.
CutRealignedToUserTurn ==
    (/\ hist.ok
     /\ Len(hist.read.selected) = 2
     /\ Len(hist.read.selected[1]) + 2 + Len(hist.read.selected[2])
            > (IF hist.budgets.max_chars < 500 THEN 500 ELSE hist.budgets.max_chars)
     /\ SubSeq(hist.read.selected[2], 1, 6) = UserPrefix)
        => hist.read.excerpt = hist.read.selected[2]

\* C26 as stated: a row whose content carries a tool_result item contributes
\* nothing, so a transcript made of such rows and of unreadable lines gives
\* an empty excerpt.
CexC26_ToolResultRowsContributeNothing ==
    (/\ hist.ok /\ hist.shape = "turns"
     /\ \A i \in 1..Len(hist.lines) :
            hist.lines[i] = JunkLine \/ CarriesToolResult(hist.lines[i].content))
        => hist.read.excerpt = <<>>

\* C26: in the excerpt of a turn-based transcript no text of a tool-result
\* payload appears, and no text item of a row that carries a tool_result
\* item; what such a row can contribute is the one-liners of the tool calls
\* of an assistant row.
ThmC26_NoToolResultRowText ==
    (hist.ok /\ hist.shape = "turns") =>
        /\ FindText(hist.read.excerpt, Secret) = 0
        /\ FindText(hist.read.excerpt, Note) = 0
        /\ FindText(hist.read.excerpt, Hidden) = 0
        /\ \A i \in 1..Len(hist.read.survivors) :
               /\ FindText(hist.read.survivors[i], Secret) = 0
               /\ FindText(hist.read.survivors[i], Note) = 0
               /\ FindText(hist.read.survivors[i], Hidden) = 0

\* A user row and an assistant row with tool results stood between two
\* ordinary turns; the excerpt has the ordinary turns and the tool call.
WitC26_ToolResultRowsRead ==
    /\ hist.ok /\ hist.shape = "turns"
    /\ hist.lines = <<UserFix, UserToolResult, AssistantToolResult>>
    /\ hist.budgets.max_messages = 2
    /\ hist.budgets.head_lines = DefaultHeadLines
    /\ Len(hist.read.survivors) = 2
    /\ FindText(hist.read.excerpt, ToolTag) > 0
    /\ FindText(hist.read.excerpt, UserPrefix) = 1

\* C27 as stated: the excerpt is made of at most max_messages turns, the
\* configured value.
CexC27_AtMostConfiguredMessages ==
    hist.ok => Len(hist.read.selected) <= hist.budgets.max_messages

\* C27: the excerpt is made of the most recent surviving turns, in transcript
\* order, at most max_messages of them for the turn-based excerptor and at
\* most max(10, max_messages) for the event-stream one; it is their join
\* when that fits the character budget and a suffix of it otherwise.
ThmC27_MostRecentTurnsWithinEffectiveMessages ==
    hist.ok =>
        LET budget == IF hist.shape = "events" /\ hist.budgets.max_messages < 10
                      THEN 10 ELSE hist.budgets.max_messages
            chars == IF hist.budgets.max_chars < 500 THEN 500 ELSE hist.budgets.max_chars
            k == Len(hist.read.selected)
            n == Len(hist.read.survivors)
            joined == JoinText(hist.read.selected, <<"\n", "\n">>)
        IN  /\ k <= budget /\ k <= n
            /\ k = budget \/ k = n
            /\ \A i \in 1..k : hist.read.selected[i] = hist.read.survivors[n - k + i]
            /\ Len(joined) <= chars => hist.read.excerpt = joined
            /\ Len(hist.read.excerpt) <= Len(joined)
            /\ hist.read.excerpt
                   = SubSeq(joined, Len(joined) - Len(hist.read.excerpt) + 1, Len(joined))

\* An event-stream transcript of more than three times the budget was read:
\* the excerpt is made of the last twelve of its turns.
WitC27_LastTwelveOfLongTranscript ==
    /\ hist.ok /\ hist.shape = "events"
    /\ hist.budgets.max_messages = 12
    /\ Len(hist.read.survivors) = 31
    /\ Len(hist.read.selected) = 12
    /\ hist.read.selected[1] = UserPrefix \o <<"q", "2", "0">>
    /\ hist.read.selected[12] = UserPrefix \o <<"q", "3", "1">>

-----------------------------------------------------------------------------
(* SpecCli: invocations of main as processes, with the summarization call   *)
(* and the remote POST as steps inside the critical section, and hook       *)
(* invocations started from inside a CLI subprocess.                        *)

ModeChoices == {"post_tool_use", "task_completed", "pre_compact", "session_end"}

\* A parser without choices: whatever follows --mode is taken as the mode.
ParseArgsAnyMode(argv) ==
    IF "-h" \in Range(argv) THEN [status |-> "help", mode |-> ""]
    ELSE IF Len(argv) = 2 /\ argv[1] = "--mode"
    THEN [status |-> "ok", mode |-> argv[2]]
    ELSE [status |-> "error", mode |-> ""]

\* argparse on the command line: --mode is required, takes one of the
\* choices, and nothing else is accepted; -h prints the help and exits 0.
ParseArgs(argv) ==
    IF "-h" \in Range(argv) THEN [status |-> "help", mode |-> ""]
    ELSE IF Len(argv) = 2 /\ argv[1] = "--mode" /\ argv[2] \in ModeChoices
    THEN [status |-> "ok", mode |-> argv[2]]
    ELSE [status |-> "error", mode |-> ""]

\* Where main goes after parsing: SystemExit(2) of argparse, the help, the
\* return of a disabled or eventless invocation, or the handler's lock.
Entry(argv, auto_enabled, payload) ==
    LET args == ParseArgs(argv)
    IN  IF args.status = "error" THEN "usage_error"
        ELSE IF args.status = "help" THEN "help"
        ELSE IF ~auto_enabled THEN "done"
        ELSE IF TouchesState(args.mode, payload) THEN "lock"
        ELSE "done"

ExitStatus(position) == IF position = "usage_error" THEN 2 ELSE 0

CliProviders == {"claude_cli", "codex_cli"}

\* REMEM_MEMORY_AUTO_ENABLED as the subprocess of a CLI provider gets it.
CliEnvironmentUnchanged(provider, auto_enabled) == auto_enabled

\* _call_claude_cli sets the flag to 0 in the copy of the environment it
\* hands to the subprocess (lines 574-576); _call_codex_cli changes
\* CODEX_HOME and NO_COLOR only (lines 654-656).
CliEnvironment(provider, auto_enabled) ==
    IF provider = "claude_cli" THEN FALSE ELSE auto_enabled

\* What a summarization call meets: an answer, a failure, or no answer.
CallOutcomes == {"reply", "failed", "timeout"}

\* A call without a timeout ends only when the backend answers or fails.
CallEndsWithoutTimeout(outcome) == outcome \in {"reply", "failed"}

\* subprocess.run(timeout=...) and urlopen(timeout=...): the call ends on an
\* answer, on a failure and when the timeout expires.
CallEnds(outcome) == outcome \in {"reply", "failed", "timeout"}

PayloadFor(mode) ==
    IF mode = "post_tool_use"
    THEN [tool_name |-> "Write", file_path |-> "a.py", transcript_path |-> "t.jsonl"]
    ELSE [tool_name |-> "", file_path |-> "", transcript_path |-> "t.jsonl"]

Argvs ==
    {<<"--mode", m>> : m \in {"post_tool_use", "session_end", "stop", ""}}
    \cup {<<>>, <<"--mode">>, <<"session_end">>, <<"--mode", "session_end", "now">>, <<"-h">>}

IdleInvocation ==
    [mode |-> "post_tool_use", payload |-> PayloadFor("session_end"), argv |-> <<>>,
     auto_enabled |-> TRUE, parent |-> 0, outcome |-> "reply"]

CliEnvs ==
    {NoBackendEnv}
    \cup [forced : {""}, available : {{"claude_cli"}, {"codex_cli"}, {"anthropic"}},
          enabled : {TRUE}, excerpt : {TRUE}, reply : {GoodObject}]

InitCli ==
    /\ cfg \in {c \in Configs : c.min_events = 1 /\ c.rollup_on_session_end}
    /\ env \in CliEnvs
    /\ now = TickStep /\ steps = 0
    /\ stateFile = NoFile /\ log = <<>> /\ last = "none" /\ hist = NoHist
    /\ decision = NoDecision
    /\ fcntl \in BOOLEAN
    /\ holders = {}
    /\ pc = [p \in Procs |-> "idle"]
    /\ inv = [p \in Procs |-> IdleInvocation]
    /\ loc = [p \in Procs |-> DefaultState("")]
    /\ tmpFile = NoFile /\ remote = "none"

\* main is started by the host with a command line and an environment.
StartWith(p, argvs) ==
    /\ pc[p] = "idle"
    /\ \E argv \in argvs, auto_enabled \in BOOLEAN :
         /\ inv' = [inv EXCEPT ![p] = [mode |-> ParseArgs(argv).mode,
                                       payload |-> PayloadFor(ParseArgs(argv).mode),
                                       argv |-> argv, auto_enabled |-> auto_enabled,
                                       parent |-> 0, outcome |-> "reply"]]
         /\ pc' = [pc EXCEPT ![p] = Entry(argv, auto_enabled, PayloadFor(ParseArgs(argv).mode))]
    /\ UNCHANGED <<cfg, now, steps, stateFile, log, last, hist, decision, fcntl, holders, loc, env, tmpFile, remote>>

Start(p) == StartWith(p, Argvs)

\* A hook of the agent that runs inside the CLI subprocess of q starts main
\* with the environment of that subprocess.
Spawn(p, q) ==
    /\ pc[p] = "idle" /\ pc[q] = "prompt"
    /\ SelectLlmProvider(env) \in CliProviders
    /\ \E mode \in {"post_tool_use", "session_end"} :
         LET auto_enabled == CliEnvironment(SelectLlmProvider(env), inv[q].auto_enabled)
         IN  /\ inv' = [inv EXCEPT ![p] = [mode |-> mode, payload |-> PayloadFor(mode),
                                           argv |-> <<"--mode", mode>>,
                                           auto_enabled |-> auto_enabled,
                                           parent |-> q, outcome |-> "reply"]]
             /\ pc' = [pc EXCEPT ![p] = Entry(<<"--mode", mode>>, auto_enabled, PayloadFor(mode))]
    /\ UNCHANGED <<cfg, now, steps, stateFile, log, last, hist, decision, fcntl, holders, loc, env, tmpFile, remote>>

\* The invocation builds a document with a summary asked of the backend
\* (lines 719-723, 796-800).
AsksBackend(p) ==
    /\ LlmEnabled(env) /\ env.excerpt
    /\ \/ FiresCheckpoint(inv[p].mode, cfg, loc[p], now) /\ loc[p].transcript_path # ""
       \/ /\ inv[p].mode = "session_end" /\ cfg.rollup_on_session_end
          /\ \/ FiresCheckpoint(inv[p].mode, cfg, loc[p], now)
             \/ LoadCheckpointRows(log, cfg.project, cfg.session_id) # <<>>

\* _prompt_llm is called, or there is nothing to ask.
Summarize(p) ==
    /\ pc[p] = "build"
    /\ IF AsksBackend(p)
       THEN \E outcome \in CallOutcomes :
               /\ inv' = [inv EXCEPT ![p].outcome = outcome]
               /\ pc' = [pc EXCEPT ![p] = "prompt"]
       ELSE /\ pc' = [pc EXCEPT ![p] = "ingest"]
            /\ inv' = inv
    /\ UNCHANGED <<cfg, now, steps, stateFile, log, last, hist, decision, fcntl, holders, loc, env, tmpFile, remote>>

\* The call returns: the reply, or None after a failure or the timeout.
PromptReturns(p) ==
    /\ pc[p] = "prompt"
    /\ CallEnds(inv[p].outcome)
    /\ env' = IF inv[p].outcome = "reply" THEN env ELSE [env EXCEPT !.reply = <<>>]
    /\ pc' = [pc EXCEPT ![p] = "ingest"]
    /\ UNCHANGED <<cfg, now, steps, stateFile, log, last, hist, decision, fcntl, holders, inv, loc, tmpFile, remote>>

\* The documents are built, posted and logged; the POST ends with one of the
\* outcomes of _ingest, a timeout after 20 s among them.
IngestAndLog(p) ==
    /\ pc[p] = "ingest"
    /\ \E net \in NetOutcomes(cfg) :
         /\ log' = HandlerLog(inv[p].mode, cfg, loc[p], log, now, net)
         /\ remote' = IF log' # log THEN net ELSE remote
    /\ loc' = [loc EXCEPT ![p] = HandlerFinal(inv[p].mode, cfg, loc[p], now)]
    /\ pc' = [pc EXCEPT ![p] = "save"]
    /\ UNCHANGED <<cfg, now, steps, stateFile, last, hist, decision, fcntl, holders, inv, env, tmpFile>>

\* The steps of an invocation between the lock and its release.
Proceed(p) ==
    Load(p) \/ Summarize(p) \/ PromptReturns(p) \/ IngestAndLog(p) \/ Save(p) \/ Unlock(p)

NextCli ==
    \E p \in Procs :
        \/ Start(p)
        \/ \E q \in Procs \ {p} : Spawn(p, q)
        \/ Acquire(p)
        \/ Proceed(p)

SpecCli == InitCli /\ [][NextCli]_vars

\* The session of the liveness specification: locking available, a CLI
\* backend, a remote store, hooks started with a mode of the session.
InitCliLive ==
    /\ InitCli
    /\ fcntl /\ cfg.api_key
    /\ SelectLlmProvider(env) \in CliProviders

StartHook(p) == StartWith(p, {<<"--mode", "post_tool_use">>})

NextCliLive ==
    \E p \in Procs :
        \/ StartHook(p)
        \/ \E q \in Procs \ {p} : Spawn(p, q)
        \/ Acquire(p)
        \/ Proceed(p)

\* The step of IngestAndLog(p) told by the positions alone: no other action
\* takes p from "ingest" to "save", and both are enabled exactly when p is
\* at "ingest" (urlopen returns or raises within its timeout of 20 s,
\* line 1128).
IngestEnds(p) == pc[p] = "ingest" /\ pc' = [pc EXCEPT ![p] = "save"]

\* The steps of a running process other than the POST.
LocalStep(p) == Load(p) \/ Summarize(p) \/ PromptReturns(p) \/ Save(p) \/ Unlock(p)

\* A running process takes its next step: the operating system schedules
\* it, the external calls end (CallEnds, the timeout of urlopen); flock
\* returns once the lock stays free.
SpecCliLive ==
    /\ InitCliLive /\ [][NextCliLive]_vars
    /\ \A p \in Procs : WF_vars(LocalStep(p)) /\ WF_pc(IngestEnds(p)) /\ WF_vars(Acquire(p))

Misused(argv) ==
    /\ "-h" \notin Range(argv)
    /\ \/ Len(argv) # 2
       \/ argv[1] # "--mode"
       \/ argv[2] \notin {"post_tool_use", "task_completed", "pre_compact", "session_end"}

\* C28: an invocation whose mode argument is unknown or missing exits with a
\* non-zero status at once; state file, lock, audit log and remote are left
\* as they were, and the invocation takes no further step.
ThmC28_MisuseExitsBeforeMutation ==
    /\ [][\A p \in Procs :
            (pc[p] = "idle" /\ pc'[p] # "idle" /\ Misused(inv'[p].argv))
                => /\ ExitStatus(pc'[p]) # 0
                   /\ UNCHANGED <<stateFile, log, holders, remote, tmpFile, env, loc>>]_vars
    /\ [][\A p \in Procs :
            (pc[p] # "idle" /\ Misused(inv[p].argv)) => pc'[p] = pc[p]]_vars

\* An invocation with an unknown mode ended while the session had a state
\* file and a log written by another invocation.
WitC28_UnknownModeRejected ==
    /\ pc[1] = "usage_error"
    /\ inv[1].argv = <<"--mode", "stop">>
    /\ pc[2] = "done" /\ inv[2].mode = "post_tool_use"
    /\ stateFile # NoFile /\ log # <<>>

\* A request for help also leaves everything as it was.
HelpLeavesStateAlone ==
    [][\A p \in Procs :
        (pc[p] = "idle" /\ pc'[p] = "help")
            => UNCHANGED <<stateFile, log, holders, remote, tmpFile, env, loc>>]_vars

\* The step in which process p is started from inside the subprocess of a
\* CLI provider.
SpawnedInCli(p) == pc[p] = "idle" /\ pc'[p] # "idle" /\ inv'[p].parent # 0

ReturnsAtOnce(p) ==
    /\ pc'[p] = "done" /\ ExitStatus(pc'[p]) = 0
    /\ UNCHANGED <<holders, stateFile, log, remote, tmpFile, loc>>

\* C29: every hook invocation started from inside the subprocess of the
\* claude CLI (the interactive agent) returns 0 at once, without taking the
\* lock, changing state or building a document, and takes no further step,
\* so it never waits for the lock of its parent. The subprocess of the
\* codex CLI (the sandboxed agent) gets no such flag: an invocation started
\* inside it is enabled whenever its parent is.
ThmC29_NestedClaudeInvocationDisabled ==
    /\ [][\A p \in Procs :
            (SpawnedInCli(p) /\ "claude_cli" \in env.available) => ReturnsAtOnce(p)]_vars
    /\ [][\A p \in Procs :
            (pc[p] = "done" /\ inv[p].parent # 0 /\ "claude_cli" \in env.available)
                => pc'[p] = "done"]_vars
    /\ [][\A p \in Procs :
            (SpawnedInCli(p) /\ "codex_cli" \in env.available)
                => inv'[p].auto_enabled = inv[inv'[p].parent].auto_enabled]_vars

\* The parent holds the lock and waits for the claude CLI; the invocation
\* started inside the subprocess has returned.
WitC29_NestedInvocationReturned ==
    /\ fcntl /\ "claude_cli" \in env.available
    /\ pc[1] = "prompt" /\ holders = {1} /\ inv[1].auto_enabled
    /\ inv[2].parent = 1 /\ inv[2].mode = "session_end" /\ pc[2] = "done"
    /\ stateFile = NoFile /\ log = <<>>

Locked == {"load", "build", "prompt", "ingest", "save", "unlock"}

-----------------------------------------------------------------------------
(* SpecWrapper: main of remem_codex_wrapper.py, started with a command line *)
(* and receiving termination signals.                                       *)

Signals == {"SIGINT", "SIGTERM"}

\* What parse_args and the environment give main (lines 701-781).
WrapperOptions ==
    [in_git_repo : BOOLEAN, always_checkpoint : BOOLEAN, checkpoint_on_start : BOOLEAN,
     no_rollup : BOOLEAN, ingest : BOOLEAN, summary_enabled : BOOLEAN, codex_found : BOOLEAN]

\* The wrapper's state file before main has written it.
NoWrapperState == [written |-> FALSE, active |-> FALSE]

InitWrapper ==
    /\ env \in WrapperOptions
    /\ pc = [main |-> "start", timer |-> "unstarted"]
    /\ loc = [child |-> "none", handlers |-> FALSE, status |-> 0]
    /\ stateFile = NoWrapperState
    /\ log = <<>> /\ remote = "none" /\ steps = 0
    /\ cfg \in {c \in Configs : c.min_events = 1 /\ ~c.api_key /\ c.rollup_on_session_end}
    /\ now = 0 /\ last = "none" /\ decision = NoDecision /\ hist = NoHist
    /\ inv = <<>> /\ fcntl = TRUE /\ holders = {} /\ tmpFile = NoFile

\* main from its first line: the arguments are read, a missing codex binary
\* ends main with 2 (lines 763-765), and line 785 calls _utc_now, a name the
\* module does not define (it defines _utc_now_iso only, line 42): NameError
\* ends the process with a traceback and status 1, before the state file is
\* written (line 789) and before the child is started (line 865).
WrapperStart(options) ==
    IF ~options.codex_found
    THEN [position |-> "returned", status |-> 2, child |-> "none", written |-> FALSE]
    ELSE [position |-> "crashed", status |-> 1, child |-> "none", written |-> FALSE]

Launch ==
    /\ pc.main = "start"
    /\ LET started == WrapperStart(env)
       IN  /\ pc' = [pc EXCEPT !.main = started.position]
           /\ loc' = [loc EXCEPT !.child = started.child, !.status = started.status]
           /\ stateFile' = [written |-> started.written, active |-> started.written]
    /\ UNCHANGED <<cfg, now, steps, log, last, hist, decision, fcntl, holders, inv, env,
                   tmpFile, remote>>

\* A termination signal reaches the wrapper before main has installed
\* _forward (lines 872-873): the default disposition applies, SIGTERM ends
\* the process and SIGINT raises KeyboardInterrupt.
Signal(sig) ==
    /\ pc.main = "start" /\ ~loc.handlers
    /\ pc' = [pc EXCEPT !.main = IF sig = "SIGTERM" THEN "killed" ELSE "interrupted"]
    /\ loc' = [loc EXCEPT !.status = IF sig = "SIGTERM" THEN 143 ELSE 130]
    /\ last' = sig
    /\ UNCHANGED <<cfg, now, steps, stateFile, log, hist, decision, fcntl, holders, inv, env,
                   tmpFile, remote>>

NextWrapper ==
    \/ Launch
    \/ \E sig \in Signals : Signal(sig)

SpecWrapper == InitWrapper /\ [][NextWrapper]_vars

\* C31 as stated, its first step: when main has gone past its start with a
\* codex binary on the path and without having been stopped by a signal,
\* the child process has been launched and the state file says active.
CexC31_ChildLaunched ==
    (env.codex_found /\ pc.main \notin {"start", "killed", "interrupted"})
        => (loc.child = "running" /\ stateFile.written)

\* What main does instead: it ends with status 1, no child, no state file,
\* no checkpoint, whatever the options.
WrapperEndsAtNameError ==
    (env.codex_found /\ pc.main \notin {"start", "killed", "interrupted"})
        => /\ pc.main = "crashed" /\ loc.status = 1
           /\ loc.child = "none" /\ ~stateFile.written /\ log = <<>>
           /\ pc.timer = "unstarted"

-----------------------------------------------------------------------------
(* SpecHelper: runs of remem_checkpoint.py main, the helper the wrapper     *)
(* starts for each checkpoint, on one log file.                             *)

MaxHelperRuns == 2

ChangedSets == {<<>>, <<"a.py">>, <<"a.py", "b.py">>}
PostOutcomes == {"ok", "transport_error", "http_error"}

HelperArgs ==
    [kind : {"interval", "milestone"}, files : ChangedSets, ingest : BOOLEAN,
     dry_run : BOOLEAN, no_log : BOOLEAN, credentials : BOOLEAN]

HelperRecord(args, response) == [kind |-> args.kind, files |-> args.files, response |-> response]

\* main of remem_checkpoint.py (lines 203-222): the payload is built; with
\* --ingest and without --dry-run it is posted, after the check of the
\* credentials; the record is appended unless --no-log. ingest_checkpoint
\* (lines 157-167) lets the transport error of client.post and the
\* HTTPStatusError of raise_for_status escape, and main does not catch
\* them: the process ends with a traceback and status 1 before
\* append_checkpoint_log. The record has a response only after a POST.
CheckpointMain(args, lg, net) ==
    IF args.ingest /\ ~args.dry_run
    THEN IF ~args.credentials THEN [code |-> 2, log |-> lg]
         ELSE IF net # "ok" THEN [code |-> 1, log |-> lg]
         ELSE [code |-> 0,
               log |-> IF args.no_log THEN lg ELSE Append(lg, HelperRecord(args, "ok"))]
    ELSE [code |-> 0,
          log |-> IF args.no_log THEN lg ELSE Append(lg, HelperRecord(args, "absent"))]

\* _run_checkpoint of the wrapper (line 670): the checkpoint counts when the
\* helper ended with status 0.
RunCheckpointOk(code) == code = 0

NoRun == [ok |-> FALSE, args |-> <<>>, net |-> "none", code |-> 0]

InitHelper ==
    /\ log = <<>> /\ remote = "none" /\ steps = 0
    /\ hist = NoRun
    /\ cfg \in {c \in Configs : c.min_events = 1 /\ ~c.api_key /\ c.rollup_on_session_end}
    /\ now = 0 /\ last = "none" /\ decision = NoDecision
    /\ stateFile = NoFile /\ IdleProcs /\ Undisturbed

RunHelper ==
    /\ steps < MaxHelperRuns
    /\ \E args \in HelperArgs, net \in PostOutcomes :
         LET result == CheckpointMain(args, log, net)
         IN  /\ log' = result.log
             /\ hist' = [ok |-> TRUE, args |-> args, net |-> net, code |-> result.code]
             /\ remote' = IF args.ingest /\ ~args.dry_run /\ args.credentials THEN net ELSE remote
    /\ steps' = steps + 1
    /\ last' = "helper"
    /\ UNCHANGED <<cfg, now, stateFile, decision, fcntl, holders, pc, inv, loc, env, tmpFile>>

NextHelper == RunHelper

SpecHelper == InitHelper /\ [][NextHelper]_vars

\* The run the claim is about: --ingest with credentials, logging enabled,
\* and the POST failed.
FailedPost(h) ==
    /\ h.ok /\ h.args.ingest /\ ~h.args.dry_run /\ h.args.credentials /\ ~h.args.no_log
    /\ h.net # "ok"

\* C35 as stated: when the POST of the helper fails, the checkpoint is
\* appended to the log with a null response and the helper ends with 0.
CexC35_FailedPostStillLoggedByHelper ==
    [][FailedPost(hist')
          => /\ hist'.code = 0
             /\ log' = Append(log, HelperRecord(hist'.args, "null"))]_vars

\* What the helper does instead: it ends with status 1 and leaves the log
\* as it was, so the wrapper does not count the checkpoint.
FailedPostLosesRecord ==
    [][FailedPost(hist') => (hist'.code = 1 /\ log' = log /\ ~RunCheckpointOk(hist'.code))]_vars

-----------------------------------------------------------------------------
(* SpecWindows: the head and tail windows of _read_transcript_excerpt on    *)
(* transcripts whose lines are their own line numbers.                      *)

MaxLines == 6
MaxWindow == 5

NoWindows == [ok |-> FALSE, total |-> 0, head_lines |-> 1, tail_lines |-> 1, combined |-> <<>>]

WindowInputs ==
    [ok : {FALSE}, total : 0..MaxLines, head_lines : 1..MaxWindow, tail_lines : 1..MaxWindow,
     combined : {<<>>}]

InitWindows ==
    /\ hist \in WindowInputs
    /\ cfg \in {c \in Configs : c.min_events = 1 /\ ~c.api_key /\ c.rollup_on_session_end}
    /\ now = TickStep /\ steps = 0
    /\ stateFile = NoFile /\ log = <<>> /\ last = "none"
    /\ decision = NoDecision /\ IdleProcs /\ Undisturbed

\* The file is read once and the two windows are put together.
ReadWindows ==
    /\ ~hist.ok
    /\ hist' = [hist EXCEPT !.ok = TRUE,
                    !.combined = Combined([i \in 1..hist.total |-> i],
                                          IntEnv(hist.head_lines), IntEnv(hist.tail_lines))]
    /\ last' = "read_windows"
    /\ UNCHANGED <<cfg, now, steps, stateFile, log, decision, fcntl, holders, pc, inv, loc, env,
                   tmpFile, remote>>

NextWindows == ReadWindows

SpecWindows == InitWindows /\ [][NextWindows]_vars

Smaller(a, b) == IF a < b THEN a ELSE b
Larger(a, b) == IF a > b THEN a ELSE b

\* The line numbers from..to, in order.
LineNumbers(from, to) == [i \in 1..Larger(0, to - from + 1) |-> from + i - 1]

\* C32: the lines parsed are the lines 1..min(H, T) followed by the lines
\* max(H, T - M) + 1..T; no line is taken twice and file order is kept.
ThmC32_HeadThenTailWithoutOverlap ==
    hist.ok =>
        /\ hist.combined
             = LineNumbers(1, Smaller(hist.head_lines, hist.total))
               \o LineNumbers(Larger(hist.head_lines, hist.total - hist.tail_lines) + 1, hist.total)
        /\ \A i, j \in 1..Len(hist.combined) : i < j => hist.combined[i] < hist.combined[j]

\* The tail window reaches back into the head window and one line lies
\* outside both.
WitC32_OverlappingWindows ==
    /\ hist.ok /\ hist.total = 6 /\ hist.head_lines = 3 /\ hist.tail_lines = 4
    /\ hist.combined = <<1, 2, 3, 4, 5, 6>>

\* The windows leave a gap: the lines between them are not parsed.
WindowsWithGap ==
    /\ hist.ok /\ hist.total = 6 /\ hist.head_lines = 2 /\ hist.tail_lines = 1
    /\ hist.combined = <<1, 2, 6>>

-----------------------------------------------------------------------------
(* Session end under Spec: the final checkpoint and the rollup *)

\* The step is a session end that found pending events and makes a rollup.
EndsSessionWithPendingEvents ==
    /\ HookStep("session_end")
    /\ Loaded.events_since_checkpoint > 0
    /\ cfg.rollup_on_session_end

\* C33: a session end with pending events and the rollup enabled appends the
\* final milestone checkpoint first and the rollup after it; the rollup is
\* built from the records of the session in the log that already holds that
\* checkpoint, so it counts it and lists its files.
ThmC33_FinalCheckpointBeforeRollup ==
    [][EndsSessionWithPendingEvents =>
        /\ Len(log') = Len(log) + 2
        /\ SubSeq(log', 1, Len(log)) = log
        /\ LET checkpoint == log'[Len(log) + 1]
               rollup == log'[Len(log) + 2]
           IN  /\ checkpoint.event = "auto_checkpoint"
               /\ checkpoint.payload.checkpoint_kind = "milestone"
               /\ checkpoint.payload.hook_event = "SessionEnd"
               /\ checkpoint.payload.summary.events = Loaded.events_since_checkpoint
               /\ rollup.event = "auto_rollup"
               /\ rollup.payload.summarized
                    = Len(LoadCheckpointRows(log, cfg.project, cfg.session_id)) + 1
               /\ Range(checkpoint.payload.files_touched)
                    \subseteq Range(rollup.payload.content_files)]_vars

\* A session with an interval checkpoint in the log was ended while one
\* event was pending: the log ends with the final checkpoint and a rollup of
\* two records.
WitC33_RollupAfterFinalCheckpoint ==
    /\ last = "session_end" /\ Len(log) = 3
    /\ log[1].event = "auto_checkpoint" /\ log[1].payload.checkpoint_kind = "interval"
    /\ log[2].event = "auto_checkpoint" /\ log[2].payload.hook_event = "SessionEnd"
    /\ log[2].payload.files_touched # <<>>
    /\ log[3].event = "auto_rollup" /\ log[3].payload.summarized = 2

-----------------------------------------------------------------------------
(* SpecCrash: the hook invocations of one session, one at a time, where an  *)
(* invocation may end between the append of its checkpoint and              *)
(* _save_state.                                                             *)

\* A handler that saves the state it is about to reset before it builds the
\* checkpoint.
StateSavedBeforeCrash(file, final) == SaveState(final)

\* _save_state is the last statement of every handler (lines 1217, 1242,
\* 1272, 1299): an invocation that ends before it leaves the file as it was.
StateAfterCrash(file, final) == file

MaxCrashSteps == 4

NoCrash == [crashed |-> FALSE, mode |-> "none", pending |-> <<>>, count |-> 0]

InitCrash ==
    /\ cfg \in {c \in Configs : ~c.api_key}
    /\ now = TickStep /\ steps = 0
    /\ stateFile = NoFile /\ log = <<>> /\ last = "none"
    /\ hist = NoCrash
    /\ decision = NoDecision /\ IdleProcs /\ Undisturbed

\* One whole invocation: lock, load, mutate, build and log, save, unlock.
Complete(mode, payload) ==
    /\ steps < MaxCrashSteps /\ TouchesState(mode, payload)
    /\ LET s1 == HandlerMutate(mode, cfg, payload, LoadState(stateFile, cfg.session_id))
           written == HandlerLog(mode, cfg, s1, log, now, "none")
       IN  /\ log' = written
           /\ stateFile' = SaveState(HandlerFinal(mode, cfg, s1, now))
           /\ hist' = IF written # log THEN NoCrash ELSE hist
    /\ steps' = steps + 1 /\ last' = mode
    /\ UNCHANGED <<cfg, now, decision, fcntl, holders, pc, inv, loc, env, tmpFile, remote>>

\* An invocation that appended its checkpoint (and, at a session end,
\* perhaps its rollup) and then ended, by an exception or by being killed,
\* before _save_state.
CrashAfterAppend(mode, payload) ==
    /\ steps < MaxCrashSteps /\ TouchesState(mode, payload)
    /\ LET s0 == LoadState(stateFile, cfg.session_id)
           s1 == HandlerMutate(mode, cfg, payload, s0)
           written == HandlerLog(mode, cfg, s1, log, now, "none")
       IN  /\ Len(written) > Len(log)
           /\ written[Len(log) + 1].event = "auto_checkpoint"
           /\ \E n \in (Len(log) + 1)..Len(written) : log' = SubSeq(written, 1, n)
           /\ stateFile' = StateAfterCrash(stateFile, HandlerFinal(mode, cfg, s1, now))
           /\ hist' = [crashed |-> TRUE, mode |-> mode,
                       pending |-> FilesTouched(s0.recent_events),
                       count |-> s0.events_since_checkpoint]
    /\ steps' = steps + 1 /\ last' = "crashed"
    /\ UNCHANGED <<cfg, now, decision, fcntl, holders, pc, inv, loc, env, tmpFile, remote>>

\* Time passes between invocations.
Elapse ==
    /\ steps < MaxCrashSteps
    /\ now' = now + TickStep
    /\ steps' = steps + 1
    /\ UNCHANGED <<cfg, stateFile, log, last, hist, decision, fcntl, holders, pc, inv, loc, env, tmpFile, remote>>

NextCrash ==
    \/ Elapse
    \/ \E mode \in Modes : \E payload \in PayloadsOf(mode) : Complete(mode, payload)
    \/ \E mode \in Modes : \E payload \in PayloadsOf(mode) : CrashAfterAppend(mode, payload)

SpecCrash == InitCrash /\ [][NextCrash]_vars

\* C34: an invocation that ends after the append of its checkpoint and
\* before the save leaves the state file as it was; the events accumulated
\* before it stay in the persisted state until a checkpoint covers them
\* again; when there were such events, the next record of the log is a
\* checkpoint that lists their files and counts at least as many events,
\* and the trigger that failed fires when it comes again.
ThmC34_CrashBeforeSaveKeepsEvents ==
    /\ [][(last' = "crashed" /\ steps' = steps + 1) => stateFile' = stateFile]_vars
    /\ [](hist.crashed =>
            /\ Range(hist.pending) \subseteq Range(FilesTouched(Loaded.recent_events))
            /\ Loaded.events_since_checkpoint >= hist.count)
    /\ [][(hist.crashed /\ hist.count > 0 /\ Len(log') > Len(log)) =>
            /\ log'[Len(log) + 1].event = "auto_checkpoint"
            /\ Range(hist.pending) \subseteq Range(log'[Len(log) + 1].payload.files_touched)
            /\ log'[Len(log) + 1].payload.summary.events >= hist.count]_vars
    /\ [][(hist.crashed /\ hist.count > 0 /\ steps' = steps + 1 /\ last' = hist.mode)
            => Len(log') > Len(log)]_vars

\* An invocation of post_tool_use ended after its checkpoint was appended;
\* the event accumulated before it was still in the state file, and the next
\* post_tool_use built a second checkpoint that lists its file again.
WitC34_EventsCoveredAgain ==
    /\ cfg.min_events = 2
    /\ Len(log) = 2 /\ last = "post_tool_use" /\ ~hist.crashed
    /\ log[1].event = "auto_checkpoint" /\ log[2].event = "auto_checkpoint"
    /\ log[1].payload.files_touched # <<>>
    /\ Range(log[1].payload.files_touched) \cap Range(log[2].payload.files_touched) # {}
    /\ Loaded.events_since_checkpoint = 0

\* The state right after such an end: the log has the checkpoint, the state
\* file still counts the event that preceded it.
CrashedWithPendingEvent ==
    /\ hist.crashed /\ hist.count = 1 /\ hist.pending # <<>>
    /\ Len(log) = 1 /\ Loaded.events_since_checkpoint = 1

-----------------------------------------------------------------------------
(* The persisted counters under Spec *)

\* C36: in every state a hook invocation of the session has persisted,
\* events_since_checkpoint is below twice min_events, and below min_events
\* as long as last_checkpoint_epoch is 0.
ThmC36_PendingEventsBounded ==
    last \in Modes =>
        /\ stateFile.kind = "object"
        /\ stateFile.data.events_since_checkpoint < 2 * cfg.min_events
        /\ stateFile.data.last_checkpoint_epoch = 0
             => stateFile.data.events_since_checkpoint < cfg.min_events

\* After a checkpoint the session has accumulated one event less than twice
\* the floor, inside the interval.
WitC36_OneBelowTwiceTheFloor ==
    /\ last = "post_tool_use" /\ cfg.min_events = MaxMinEvents
    /\ stateFile.data.last_checkpoint_epoch > 0
    /\ stateFile.data.events_since_checkpoint = 2 * cfg.min_events - 1

\* Before the first checkpoint the session has accumulated one event less
\* than the floor.
OneBelowTheFloor ==
    /\ last = "post_tool_use" /\ cfg.min_events = MaxMinEvents
    /\ stateFile.data.last_checkpoint_epoch = 0
    /\ stateFile.data.events_since_checkpoint = cfg.min_events - 1

-----------------------------------------------------------------------------
(* The persisted counters under SpecRecent *)

PersistedCount == stateFile.data.events_since_checkpoint

\* C37: in every state persisted by the invocations of a session the length
\* of recent_events is the smaller of events_since_checkpoint and 30, and a
\* step that empties one of the two empties the other.
ThmC37_RecentLengthFollowsCount ==
    /\ [](stateFile.kind = "object" =>
            Len(stateFile.data.recent_events)
                = IF PersistedCount < RecentCap THEN PersistedCount ELSE RecentCap)
    /\ [][(stateFile.kind = "object" /\ stateFile'.kind = "object") =>
            /\ (stateFile'.data.events_since_checkpoint = 0) <=> (stateFile'.data.recent_events = <<>>)
            /\ (last' = "post_tool_use" /\ stateFile'.data.events_since_checkpoint # 0)
                 => stateFile'.data.events_since_checkpoint = PersistedCount + 1
            /\ (last' = "session_end" /\ steps' = steps + 1)
                 => stateFile'.data.events_since_checkpoint = 0]_vars

\* The count has passed the cap: 31 events counted, 30 kept.
WitC37_CountAboveCap ==
    /\ stateFile.kind = "object"
    /\ PersistedCount = RecentCap + 1
    /\ Len(stateFile.data.recent_events) = RecentCap

\* A checkpoint after more than 30 events has emptied both.
BothResetAfterLongRun ==
    /\ stateFile.kind = "object"
    /\ Len(log) > 0 /\ log[Len(log)].payload.summary.events > RecentCap
    /\ PersistedCount = 0 /\ stateFile.data.recent_events = <<>>

-----------------------------------------------------------------------------
(* SpecLongRun: a session that wrote a.py once and b.py ever since *)

\* The tool events of the session so far: one Write of a.py, then Writes of
\* b.py.
LongRunEvents(k) ==
    [i \in 1..k |->
        ExtractToolEvent([tool_name |-> "Write",
                          file_path |-> IF i = 1 THEN "a.py" ELSE "b.py",
                          transcript_path |-> "t.jsonl"])[1]]

\* The state file after RecentCap - 1 such events of a fresh session whose
\* floor lies above the cap: every event was counted and kept, and no
\* checkpoint was built.
InitLongRun ==
    /\ cfg \in RecentConfigs
    /\ now = TickStep
    /\ steps = 0
    /\ stateFile = SaveState([DefaultState(cfg.session_id) EXCEPT
                                  !.project = cfg.project,
                                  !.transcript_path = "t.jsonl",
                                  !.events_since_checkpoint = RecentCap - 1,
                                  !.recent_events = LongRunEvents(RecentCap - 1)])
    /\ hist = [ok |-> TRUE, events |-> LongRunEvents(RecentCap - 1)]
    /\ log = <<>>
    /\ last = "none"
    /\ decision = NoDecision
    /\ IdleProcs
    /\ Undisturbed

SpecLongRun == InitLongRun /\ [][NextRecent]_vars

\* The files carried by the events received since the previous checkpoint
\* and before the invocation that takes this step.
FilesReceived == UNION {Range(hist.events[i].files) : i \in 1..Len(hist.events)}

BuildsCheckpoint == Len(log') > Len(log) /\ log'[Len(log) + 1].event = "auto_checkpoint"

\* C38: the files_touched of every checkpoint document contains every file
\* path carried by an event received since the previous checkpoint of the
\* session, also when more than 30 events accumulate before the checkpoint
\* fires.
CexC38_EveryFileListed ==
    [][BuildsCheckpoint =>
          FilesReceived \subseteq Range(log'[Len(log) + 1].payload.files_touched)]_vars

\* What the document lists: the files of the last 30 events received, the
\* event of the building invocation included.
ListsFilesOfKeptEvents ==
    [][BuildsCheckpoint =>
          LET kept == LastN(hist.events, IF last' = "post_tool_use" THEN RecentCap - 1 ELSE RecentCap)
          IN  /\ UNION {Range(kept[i].files) : i \in 1..Len(kept)}
                    \subseteq Range(log'[Len(log) + 1].payload.files_touched)
              /\ Len(hist.events) < RecentCap
                    => FilesReceived \subseteq Range(log'[Len(log) + 1].payload.files_touched)]_vars

\* A checkpoint of 32 events that lists b.py alone: a.py, written by the
\* first of them, is missing.
FirstFileMissing ==
    /\ Len(log) > 0 /\ log[1].event = "auto_checkpoint"
    /\ log[1].payload.summary.events = RecentCap + MaxMinEvents
    /\ log[1].payload.files_touched = <<"b.py">>

-----------------------------------------------------------------------------
(* Checkpoints of zero events under Spec *)

\* The step builds a checkpoint document that counts no event.
BuildsEmptyCheckpoint ==
    /\ BuildsCheckpoint
    /\ log'[Len(log) + 1].payload.summary.events = 0

\* C39: a checkpoint document is built from zero accumulated events only by
\* pre_compact, and only when the session has no checkpoint yet or its last
\* checkpoint is at least 30 seconds old; post_tool_use, task_completed and
\* session_end never build one.
ThmC39_EmptyCheckpointOnlyByPreCompact ==
    [][BuildsEmptyCheckpoint =>
          /\ last' = "pre_compact"
          /\ log'[Len(log) + 1].payload.hook_event = "PreCompact"
          /\ Loaded.events_since_checkpoint = 0
          /\ \/ Loaded.last_checkpoint_epoch = 0
             \/ now - Loaded.last_checkpoint_epoch >= SuppressWindow
          /\ \A i \in CheckpointRows(log, 0) : now - log[i].payload.timestamp >= SuppressWindow]_vars

\* pre_compact has built a checkpoint of zero events half a minute after the
\* checkpoint before it.
WitC39_EmptyCheckpointAfterWindow ==
    /\ last = "pre_compact" /\ Len(log) >= 2
    /\ log[Len(log)].event = "auto_checkpoint"
    /\ log[Len(log)].payload.summary.events = 0
    /\ log[Len(log) - 1].event = "auto_checkpoint"
    /\ log[Len(log)].payload.timestamp - log[Len(log) - 1].payload.timestamp >= SuppressWindow

\* pre_compact has built the first checkpoint of the session from zero events.
EmptyFirstCheckpoint ==
    /\ last = "pre_compact" /\ Len(log) = 1
    /\ log[1].event = "auto_checkpoint" /\ log[1].payload.summary.events = 0

====
